---- MODULE Spec2Model ----
(***************************************************************************)
(* Model of the AI Judge evaluation-run orchestrator                       *)
(* (backend/index.js, POST /api/run-judges) together with the record       *)
(* store it reads and writes, the LLM gateway it calls, and the two UI     *)
(* handlers that change judges and assignments while a run is going on     *)
(* (QueuePage.handleToggle, JudgesPage.handleToggleActive).                *)
(*                                                                         *)
(* A run is a sequence of steps separated by the handler's awaits: the     *)
(* four plan-construction reads, then for each unit of work the gateway    *)
(* call and the evaluation insert.  Everything the handler does between    *)
(* two awaits is one action.                                               *)
(***************************************************************************)
EXTENDS Naturals, Integers, Sequences, FiniteSets, TLC

----------------------------------------------------------------------------
(* Bounds of the model *)

\* number of submissions of queue Q1 the store may hold
MaxSubmissions == 2

\* number of units of work in the plan of the initial store's largest queue
MaxUnits == 4

\* number of UI handler invocations interleaved with a run
MaxUiOps == 2

----------------------------------------------------------------------------
(* Program constants *)

HTTP_BAD_REQUEST == 400

HTTP_SERVER_ERROR == 500

HTTP_OK == 200

HTTP_TOO_MANY_REQUESTS == 429

\* the value of an absent JS property / a failed Array.find
undefined == "#undefined"

\* a joined judge that does not exist (judges(*) of a dangling judge_id)
null == [id |-> "#null", active |-> FALSE, exists |-> FALSE]

WARN_EMPTY == "Received an empty response from the LLM for at least one evaluation."

WARN_PARSE == "At least one LLM response could not be parsed as JSON."

WARN_INVALID == "At least one LLM response did not include a valid verdict or reasoning."

WARN_SAVE == "At least one evaluation could not be saved to the database."

WARN_QUOTA == "LLM quota or rate limit exceeded. Some evaluations were skipped."

WARN_LLM == "One or more LLM calls failed. Check backend logs for details."

HINT_QUOTA == "LLM quota or rate limit exceeded."

HINT_CRED == "LLM credentials or permissions issue."

HINT_TIMEOUT == "LLM request timed out."

HINT_GENERIC == "LLM call failed."

NOTE_NOTHING == "Nothing to evaluate: ensure submissions, questions, and judge assignments exist for this queue."

----------------------------------------------------------------------------
(* Generic sequence helpers (Array.filter, Array.find, Set.add) *)

RECURSIVE SeqFilter(_, _)
\* Array.prototype.filter with the predicate given as the set of kept values
SeqFilter(seq, keep) ==
  IF seq = <<>> THEN <<>>
  ELSE IF Head(seq) \in keep
       THEN <<Head(seq)>> \o SeqFilter(Tail(seq), keep)
       ELSE SeqFilter(Tail(seq), keep)

\* the elements of a sequence, as a set
Range(seq) == {seq[i] : i \in 1..Len(seq)}

\* SetAdd on an array: push
SetAddAsList(seq, x) == Append(seq, x)

\* Set.prototype.add on an insertion-ordered JS Set
SetAdd(seq, x) == IF x \in Range(seq) THEN seq ELSE Append(seq, x)

----------------------------------------------------------------------------
(* Errors: a status and a message.  A message is a sequence of words; the  *)
(* words that matter are the ones the classifiers look for, in the case    *)
(* the provider happened to use.                                           *)

\* String.prototype.toLowerCase on one word
ToLowerCase(w) ==
  CASE w = "QUOTA" -> "quota"
    [] w = "Rate Limit" -> "rate limit"
    [] w = "RESOURCE_EXHAUSTED" -> "resource_exhausted"
    [] w = "PERMISSION" -> "permission"
    [] w = "Unauthorized" -> "unauthorized"
    [] w = "DEADLINE" -> "deadline"
    [] w = "Timeout" -> "timeout"
    [] w = "JSON" -> "json"
    [] w = "Json" -> "json"
    [] OTHER -> w

\* String(err?.message || err || "").toLowerCase()
LowerMessage(err) == [i \in 1..Len(err.message) |-> ToLowerCase(err.message[i])]

\* String.prototype.includes on a lower-cased message
Includes(msg, word) == \E i \in 1..Len(msg) : msg[i] = word

MkErr(status, message) == [status |-> status, message |-> message]

\* the errors the gateway may throw
GatewayErrors ==
  { MkErr(0, <<"request", "timeout">>),
    MkErr(0, <<"DEADLINE", "exceeded">>),
    MkErr(0, <<"Timeout", "while", "checking", "quota">>),
    MkErr(HTTP_TOO_MANY_REQUESTS, <<"too", "many", "requests">>),
    MkErr(0, <<"QUOTA", "exceeded">>),
    MkErr(0, <<"RESOURCE_EXHAUSTED">>),
    MkErr(0, <<"PERMISSION", "denied">>),
    MkErr(0, <<"fetch", "failed">>) }

\* the errors a store call may return
StoreErrors ==
  { MkErr(0, <<"connection", "refused">>),
    MkErr(0, <<"statement", "timeout">>) }

\* classifyGeminiError
classifyGeminiError(err) ==
  LET msg == LowerMessage(err) IN
  IF Includes(msg, "quota") \/ Includes(msg, "rate limit") THEN HINT_QUOTA
  ELSE IF Includes(msg, "permission") \/ Includes(msg, "unauthorized") THEN HINT_CRED
  ELSE IF Includes(msg, "deadline") \/ Includes(msg, "timeout") THEN HINT_TIMEOUT
  ELSE HINT_GENERIC

\* the warning the per-unit catch block adds for a thrown error
UnitCatchWarning(err) ==
  LET msg == LowerMessage(err) IN
  IF \/ err.status = HTTP_TOO_MANY_REQUESTS
     \/ Includes(msg, "quota")
     \/ Includes(msg, "rate limit")
     \/ Includes(msg, "resource_exhausted")
  THEN WARN_QUOTA
  ELSE WARN_LLM

----------------------------------------------------------------------------
(* Response texts.  A text is a sequence of tokens: a run of three         *)
(* backticks, a word, white space, or one complete JSON value.             *)

Tok(k, w, v, r) == [k |-> k, w |-> w, verdict |-> v, reasoning |-> r]

Tick == Tok("tick", "", "", "")

Ws == Tok("ws", "", "", "")

Word(w) == Tok("word", w, "", "")

\* a JSON object text with the given verdict and reasoning members
\* (undefined: the member is absent)
Obj(v, r) == Tok("json", "object", v, r)

\* a JSON text that is not an object: null, number, string, array
Lit(type) == Tok("json", type, "", "")

RECURSIVE TrimStart(_)
TrimStart(t) ==
  IF t # <<>> /\ Head(t).k = "ws" THEN TrimStart(Tail(t)) ELSE t

RECURSIVE TrimEnd(_)
TrimEnd(t) ==
  IF t # <<>> /\ t[Len(t)].k = "ws" THEN TrimEnd(SubSeq(t, 1, Len(t) - 1)) ELSE t

\* String.prototype.trim
Trim(t) == TrimEnd(TrimStart(t))

RECURSIVE StripJsonFence(_)
\* raw.replace(/```json/gi, "")
StripJsonFence(t) ==
  IF t = <<>> THEN <<>>
  ELSE IF /\ Len(t) >= 2
          /\ t[1].k = "tick"
          /\ t[2].k = "word"
          /\ ToLowerCase(t[2].w) = "json"
       THEN StripJsonFence(Tail(Tail(t)))
       ELSE <<Head(t)>> \o StripJsonFence(Tail(t))

\* .replace(/```/g, "") on a string inside a JSON text; #fence# stands for
\* three backticks
StripFenceIn(s) ==
  CASE s = "see #fence#x#fence#" -> "see x"
    [] s = "#fence#" -> ""
    [] OTHER -> s

RECURSIVE StripFence(_)
\* .replace(/```/g, ""): the replacement is global, so it also deletes the
\* backticks inside the strings of a JSON text
StripFence(t) ==
  IF t = <<>> THEN <<>>
  ELSE IF Head(t).k = "tick"
       THEN StripFence(Tail(t))
  ELSE IF Head(t).k = "json"
       THEN <<[Head(t) EXCEPT !.verdict = StripFenceIn(@),
                              !.reasoning = StripFenceIn(@)]>>
            \o StripFence(Tail(t))
       ELSE <<Head(t)>> \o StripFence(Tail(t))

\* const cleaned = raw.replace(...).replace(...).trim()
Clean(raw) == Trim(StripFence(StripJsonFence(raw)))

\* JSON.parse throws unless the text is exactly one JSON value
ParseThrows(cleaned) == ~(Len(cleaned) = 1 /\ cleaned[1].k = "json")

\* JSON.parse(cleaned), for a text it accepts
JsonParse(cleaned) == cleaned[1]

\* const { verdict, reasoning } = verdictJson throws on null
DestructureThrows(value) == value.w = "null"

\* the member of a parsed value, undefined for a value that is no object
Member(value, name) ==
  IF value.w # "object" THEN undefined
  ELSE IF name = "verdict" THEN value.verdict ELSE value.reasoning

\* JS truthiness of a member value
Truthy(x) == x \notin {undefined, "", "#null", "#0", "#false"}

\* what the gateway may answer: no text at all, or a text
GatewayResponses ==
  { [hasText |-> FALSE, text |-> <<>>] } \cup
  { [hasText |-> TRUE, text |-> t] : t \in
    { <<>>,
      <<Ws>>,
      <<Obj("pass", "ok")>>,
      <<Tick, Word("json"), Ws, Obj("pass", "ok"), Ws, Tick>>,
      <<Ws, Tick, Word("JSON"), Ws, Obj("inconclusive", "ok"), Ws, Tick, Ws>>,
      <<Obj("maybe", "ok")>>,
      <<Obj("pass", undefined)>>,
      <<Obj("pass", "")>>,
      <<Obj(undefined, "ok")>>,
      <<Obj("", "ok")>>,
      <<Lit("null")>>,
      <<Lit("array")>>,
      <<Word("Sure"), Ws, Obj("pass", "ok")>>,
      <<Tick, Word("js"), Ws, Obj("pass", "ok"), Ws, Tick>>,
      <<Tick, Word("json"), Ws, Tick>>,
      <<Tick, Word("json"), Ws, Obj("fail", "see #fence#x#fence#"), Ws, Tick>>,
      <<Tick, Word("json"), Ws, Obj("pass", "#fence#"), Ws, Tick>> } }

\* response.candidates?.[0]?.content?.parts?.[0]?.text?.trim() is falsy
RawIsEmpty(response) == ~response.hasText \/ Trim(response.text) = <<>>

\* const raw = ...text?.trim(), for a response that has a text
Raw(response) == Trim(response.text)

----------------------------------------------------------------------------
(* The record store *)

Runs == {"r1", "r2"}

\* the queue identifiers a request body may carry ("" stands for absent/empty)
QueueIds == {"", "Q1", "Q2"}

SubmissionRow(id, queue) == [id |-> id, queue_id |-> queue]

QuestionRow(id, queue) == [id |-> id, queue_id |-> queue]

AnswerRow(s, q, choice) == [submission_id |-> s, question_id |-> q, choice |-> choice]

AssignmentRow(id, queue, q, j) ==
  [id |-> id, queue_id |-> queue, question_id |-> q, judge_id |-> j]

EvaluationRow(s, q, j, verdict, reasoning) ==
  [submission_id |-> s, question_id |-> q, judge_id |-> j,
   verdict |-> verdict, reasoning |-> reasoning]

RECURSIVE SubmissionsTable(_)
\* submissions 1..n of queue Q1, after submission 0 of queue Q2
SubmissionsTable(n) ==
  IF n = 0 THEN <<SubmissionRow(0, "Q2")>>
  ELSE Append(SubmissionsTable(n - 1), SubmissionRow(n, "Q1"))

\* the questions tables the store may start with
QuestionsTables ==
  { <<QuestionRow("C", "Q2")>>,
    <<QuestionRow("A", "Q1"), QuestionRow("C", "Q2")>>,
    <<QuestionRow("A", "Q1"), QuestionRow("C", "Q2"), QuestionRow("B", "Q1")>> }

RECURSIVE AnswersTable(_, _)
\* the answers of submissions 0..n, by import pattern
AnswersTable(pattern, n) ==
  IF n = 0 THEN <<AnswerRow(0, "C", "x")>>
  ELSE AnswersTable(pattern, n - 1) \o
       CASE pattern = "all" -> <<AnswerRow(n, "A", "x"), AnswerRow(n, "B", "x")>>
         [] pattern = "onlyB" -> <<AnswerRow(n, "B", "x")>>
         [] pattern = "first" ->
              IF n = 1 THEN <<AnswerRow(n, "A", "x"), AnswerRow(n, "B", "x")>> ELSE <<>>
         [] pattern = "twice" ->
              <<AnswerRow(n, "A", "x"), AnswerRow(n, "B", "x"), AnswerRow(n, "A", "y")>>
         [] OTHER -> <<>>

AnswerPatterns == {"none", "all", "onlyB", "first", "twice"}

\* the question_judges tables the store may start with; judge J3 has no
\* row in judges
AssignmentsTables ==
  { <<>>,
    <<AssignmentRow(1, "Q2", "C", "J1")>>,
    <<AssignmentRow(1, "Q1", "A", "J1"), AssignmentRow(2, "Q2", "C", "J1"),
      AssignmentRow(3, "Q1", "B", "J2")>>,
    <<AssignmentRow(1, "Q1", "A", "J1"), AssignmentRow(2, "Q1", "A", "J2")>>,
    <<AssignmentRow(1, "Q1", "A", "J3"), AssignmentRow(2, "Q1", "B", "J1")>> }

JudgeIds == {"J1", "J2"}

VARIABLES
  dbSubmissions,     \* table submissions, in the order the store returns rows
  dbQuestions,       \* table questions
  dbAnswers,         \* table answers
  dbJudges,          \* table judges: judge id -> [active]
  dbQuestionJudges,  \* table question_judges
  dbEvaluations,     \* table evaluations
  nextId             \* the next generated question_judges id

storeVars ==
  <<dbSubmissions, dbQuestions, dbAnswers, dbJudges, dbQuestionJudges,
    dbEvaluations, nextId>>

----------------------------------------------------------------------------
(* One run of POST /api/run-judges *)

VARIABLES
  clients,       \* the runs that are requested in this behaviour
  pc,            \* where each run's handler is waiting
  queueId,       \* req.body.queueId
  submissions,   \* the rows loaded by read 1
  questions,     \* the rows loaded by read 2
  answers,       \* the rows loaded by read 3
  qj,            \* the rows loaded by read 4, with the joined judge
  pos,           \* the indices of the three nested loops
  planned,
  completed,
  failed,
  runWarnings,
  pending,       \* the row handed to the insert that is awaited
  res,           \* the response sent, [status |-> 0] while none is
  calls,         \* history: the gateway calls issued, in order
  inserts,       \* history: the number of evaluation inserts settled
  tally          \* history: how many units went each way

runVars ==
  <<clients, pc, queueId, submissions, questions, answers, qj, pos, planned,
    completed, failed, runWarnings, pending, res, calls, inserts, tally>>

\* the state of the pages: QueuePage (of queue Q1) and JudgesPage
VARIABLES
  questionJudges,  \* QueuePage state: the assignment rows the page holds
  toggles,         \* the handleToggle requests in flight
  judges,          \* JudgesPage state: judge id -> the active flag shown
  activations,     \* the handleToggleActive requests in flight
  uiOps            \* the number of UI handler invocations so far

\* the state of the QueuePage that handleRunJudges reads and writes
VARIABLES
  listedQuestions, \* QueuePage state questions: the rows loaded for the queue
  listedJudges,    \* QueuePage state judges: the active judges loaded
  isRunning,       \* QueuePage state isRunning
  runStatus,       \* QueuePage state runStatus
  fetches          \* the runs whose fetch the page awaits

queuePageVars == <<listedQuestions, listedJudges, isRunning, runStatus, fetches>>

\* the state of the ResultsPage
VARIABLES
  evaluations,         \* the evaluation rows the page loaded
  selectedJudgeIds,
  selectedQuestionIds,
  selectedVerdicts

resultsVars ==
  <<evaluations, selectedJudgeIds, selectedQuestionIds, selectedVerdicts>>

uiVars ==
  <<questionJudges, toggles, judges, activations, uiOps, queuePageVars, resultsVars>>

\* the ways a unit can go, as counted in tally
Kinds ==
  {"timeout", "error", "empty", "unparseable", "threw", "invalid", "valid",
   "unsaved", "saved"}

NoRow == EvaluationRow(0, "", "", "", "")

NoResponse == [status |-> 0]

----------------------------------------------------------------------------
(* Store queries *)

\* .from(table).select("*").eq("queue_id", queueId)
SelectByQueue(table, queue) ==
  SeqFilter(table, {row \in Range(table) : row.queue_id = queue})

\* .from("answers").select("*").in("submission_id", subIds)
SelectAnswers(table, subIds) ==
  SeqFilter(table, {row \in Range(table) : row.submission_id \in subIds})

\* the judges(*) column of a question_judges row
JoinJudge(judgesTable, row) ==
  IF row.judge_id \in DOMAIN judgesTable
  THEN [id |-> row.judge_id, active |-> judgesTable[row.judge_id].active,
        exists |-> TRUE]
  ELSE null

\* .from("question_judges").select("id, question_id, judge_id, judges(*)")
\*   .eq("queue_id", queueId)
SelectAssignments(table, judgesTable, queue) ==
  LET rows == SelectByQueue(table, queue) IN
  [i \in 1..Len(rows) |->
     [id |-> rows[i].id, question_id |-> rows[i].question_id,
      judge_id |-> rows[i].judge_id, judges |-> JoinJudge(judgesTable, rows[i])]]

StoreResults ==
  { [ok |-> TRUE, error |-> MkErr(0, <<>>)] } \cup
  { [ok |-> FALSE, error |-> e] : e \in StoreErrors }

----------------------------------------------------------------------------
(* The evaluation plan: the three nested loops *)

\* const assigned = qj.filter((x) => x.question_id === question.id)
Assigned(qjRows, question) ==
  SeqFilter(qjRows, {x \in Range(qjRows) : x.question_id = question.id})

\* FindAnswer that matches on the submission alone
FindAnswerOfSubmission(ans, submission, question) ==
  LET hits == {i \in 1..Len(ans) : ans[i].submission_id = submission.id}
  IN IF hits = {} THEN 0 ELSE CHOOSE i \in hits : \A k \in hits : i <= k

\* FindAnswer that returns the last matching row
FindAnswerLast(ans, submission, question) ==
  LET hits == {i \in 1..Len(ans) :
                 /\ ans[i].submission_id = submission.id
                 /\ ans[i].question_id = question.id}
  IN IF hits = {} THEN 0 ELSE CHOOSE i \in hits : \A k \in hits : i >= k

\* the index in answers of answers.find(...), 0 when find returns undefined
FindAnswer(ans, submission, question) ==
  LET hits == {i \in 1..Len(ans) :
                 /\ ans[i].submission_id = submission.id
                 /\ ans[i].question_id = question.id}
  IN IF hits = {} THEN 0 ELSE CHOOSE i \in hits : \A k \in hits : i <= k

\* SkipsJudge without the test of the active flag
SkipsJudgeNullOnly(judge) == judge = null

\* if (!judge || judge.active === false) continue
SkipsJudge(judge) == judge = null \/ judge.active = FALSE

NoUnit == [s |-> 0, q |-> 0, a |-> 0]

RECURSIVE NextUnit(_, _, _, _, _, _, _)
\* the loop indices of the first unit after assignment k of question j of
\* submission i that reaches planned++, NoUnit when the loops run out
NextUnit(subs, qs, ans, qjRows, i, j, k) ==
  IF i > Len(subs) THEN NoUnit
  ELSE IF j > Len(qs) THEN NextUnit(subs, qs, ans, qjRows, i + 1, 1, 0)
  ELSE IF FindAnswer(ans, subs[i], qs[j]) = 0
       THEN NextUnit(subs, qs, ans, qjRows, i, j + 1, 0)
  ELSE IF k + 1 > Len(Assigned(qjRows, qs[j]))
       THEN NextUnit(subs, qs, ans, qjRows, i, j + 1, 0)
  ELSE IF SkipsJudge(Assigned(qjRows, qs[j])[k + 1].judges)
       THEN NextUnit(subs, qs, ans, qjRows, i, j, k + 1)
  ELSE [s |-> i, q |-> j, a |-> k + 1]

\* UnitAt that indexes the unfiltered assignment rows
UnitAtUnfiltered(r, p) ==
  LET submission == submissions[r][p.s]
      question == questions[r][p.q]
      assignment == qj[r][p.a]
      ans == answers[r][FindAnswer(answers[r], submission, question)]
  IN [submission_id |-> submission.id, question_id |-> question.id,
      judge_id |-> assignment.judges.id, assignment_id |-> assignment.id,
      choice |-> ans.choice]

\* the unit of work at the loop indices of run r
UnitAt(r, p) ==
  LET submission == submissions[r][p.s]
      question == questions[r][p.q]
      assignment == Assigned(qj[r], question)[p.a]
      ans == answers[r][FindAnswer(answers[r], submission, question)]
  IN [submission_id |-> submission.id, question_id |-> question.id,
      judge_id |-> assignment.judges.id, assignment_id |-> assignment.id,
      choice |-> ans.choice]

RECURSIVE PlanFrom(_, _, _, _, _, _, _)
\* the loop indices of all units the loops reach after (i, j, k), in order
PlanFrom(subs, qs, ans, qjRows, i, j, k) ==
  LET p == NextUnit(subs, qs, ans, qjRows, i, j, k) IN
  IF p = NoUnit THEN <<>>
  ELSE <<p>> \o PlanFrom(subs, qs, ans, qjRows, p.s, p.q, p.a)

\* the plan of a run that would load the whole of queue's data now
StorePlan(queue) ==
  LET subs == SelectByQueue(dbSubmissions, queue) IN
  PlanFrom(subs, SelectByQueue(dbQuestions, queue),
           SelectAnswers(dbAnswers, {s.id : s \in Range(subs)}),
           SelectAssignments(dbQuestionJudges, dbJudges, queue), 1, 1, 0)

----------------------------------------------------------------------------
(* Initial states *)

InitStore ==
  /\ \E n \in 0..MaxSubmissions, pattern \in AnswerPatterns :
       /\ dbSubmissions = SubmissionsTable(n)
       /\ dbAnswers = AnswersTable(pattern, n)
  /\ dbQuestions \in QuestionsTables
  /\ dbJudges \in [JudgeIds -> [active : BOOLEAN]]
  /\ dbQuestionJudges \in AssignmentsTables
  /\ dbEvaluations = <<>>
  /\ nextId = 4
  /\ \A queue \in QueueIds : Len(StorePlan(queue)) <= MaxUnits

InitRuns ==
  /\ pc = [r \in Runs |-> "idle"]
  /\ queueId = [r \in Runs |-> ""]
  /\ submissions = [r \in Runs |-> <<>>]
  /\ questions = [r \in Runs |-> <<>>]
  /\ answers = [r \in Runs |-> <<>>]
  /\ qj = [r \in Runs |-> <<>>]
  /\ pos = [r \in Runs |-> NoUnit]
  /\ planned = [r \in Runs |-> 0]
  /\ completed = [r \in Runs |-> 0]
  /\ failed = [r \in Runs |-> 0]
  /\ runWarnings = [r \in Runs |-> <<>>]
  /\ pending = [r \in Runs |-> NoRow]
  /\ res = [r \in Runs |-> NoResponse]
  /\ calls = [r \in Runs |-> <<>>]
  /\ inserts = [r \in Runs |-> 0]
  /\ tally = [r \in Runs |-> [k \in Kinds |-> 0]]


----------------------------------------------------------------------------
(* Responses *)

\* res.status(400).json({ error: "Missing queueId" })
BadRequest == [status |-> HTTP_BAD_REQUEST, error |-> "Missing queueId"]

\* the outer catch: res.status(500).json({ error, hint })
ServerError(err) ==
  [status |-> HTTP_SERVER_ERROR, error |-> "Internal error running judges",
   hint |-> classifyGeminiError(err)]

\* the short-circuit response
NothingToEvaluate ==
  [status |-> HTTP_OK, planned |-> 0, completed |-> 0, failed |-> 0,
   note |-> NOTE_NOTHING, warnings |-> <<>>]

\* res.json({ planned, completed, failed, warnings: Array.from(runWarnings) })
Summary(r) ==
  [status |-> HTTP_OK, planned |-> planned[r], completed |-> completed[r],
   failed |-> failed[r], warnings |-> runWarnings[r]]

\* NothingToDo without the test of the assignments
NothingToDoNoAssignmentTest(subs, qs, qjRows) == Len(subs) = 0 \/ Len(qs) = 0

\* if (submissions.length === 0 || questions.length === 0 || qj.length === 0)
NothingToDo(subs, qs, qjRows) == Len(subs) = 0 \/ Len(qs) = 0 \/ Len(qjRows) = 0

----------------------------------------------------------------------------
(* The body of the per-unit try block, from the gateway's answer to the    *)
(* insert: what becomes of the unit                                        *)

GatewayOutcomes ==
  { [throws |-> TRUE, error |-> e, response |-> [hasText |-> FALSE, text |-> <<>>]]
      : e \in GatewayErrors } \cup
  { [throws |-> FALSE, error |-> MkErr(0, <<>>), response |-> resp]
      : resp \in GatewayResponses }

\* the TypeError of destructuring null
TypeError == MkErr(0, <<"Cannot", "destructure", "property", "verdict">>)

\* the unit fails on the path named kind, with that path's warning
Fails(kind, warning) ==
  [insert |-> FALSE, kind |-> kind, warning |-> warning, verdict |-> "", reasoning |-> ""]

\* the unit goes on to the insert
Inserts(verdict, reasoning) ==
  [insert |-> TRUE, kind |-> "valid", warning |-> "", verdict |-> verdict,
   reasoning |-> reasoning]

\* a thrown gateway error whose message names a deadline or a timeout
IsTimeout(err) ==
  Includes(LowerMessage(err), "deadline") \/ Includes(LowerMessage(err), "timeout")

\* UnitResult that validates the verdict alone
UnitResultVerdictOnly(outcome) ==
  IF outcome.throws
  THEN Fails(IF IsTimeout(outcome.error) THEN "timeout" ELSE "error",
             UnitCatchWarning(outcome.error))
  ELSE IF RawIsEmpty(outcome.response) THEN Fails("empty", WARN_EMPTY)
  ELSE LET cleaned == Clean(Raw(outcome.response)) IN
       IF ParseThrows(cleaned) THEN Fails("unparseable", WARN_PARSE)
       ELSE LET verdictJson == JsonParse(cleaned) IN
            IF DestructureThrows(verdictJson)
            THEN Fails("threw", UnitCatchWarning(TypeError))
            ELSE LET verdict == Member(verdictJson, "verdict")
                     reasoning == Member(verdictJson, "reasoning")
                 IN IF ~Truthy(verdict)
                    THEN Fails("invalid", WARN_INVALID)
                    ELSE Inserts(verdict, reasoning)

UnitResult(outcome) ==
  IF outcome.throws
  THEN Fails(IF IsTimeout(outcome.error) THEN "timeout" ELSE "error",
             UnitCatchWarning(outcome.error))
  ELSE IF RawIsEmpty(outcome.response) THEN Fails("empty", WARN_EMPTY)
  ELSE LET cleaned == Clean(Raw(outcome.response)) IN
       IF ParseThrows(cleaned) THEN Fails("unparseable", WARN_PARSE)
       ELSE LET verdictJson == JsonParse(cleaned) IN
            IF DestructureThrows(verdictJson)
            THEN Fails("threw", UnitCatchWarning(TypeError))
            ELSE LET verdict == Member(verdictJson, "verdict")
                     reasoning == Member(verdictJson, "reasoning")
                 IN IF ~Truthy(verdict) \/ ~Truthy(reasoning)
                    THEN Fails("invalid", WARN_INVALID)
                    ELSE Inserts(verdict, reasoning)

----------------------------------------------------------------------------
(* Actions of a run *)

\* Request without the test of queueId
RequestUnvalidated(r, q) ==
  /\ r \in clients
  /\ pc[r] = "idle"
  /\ queueId' = [queueId EXCEPT ![r] = q]
  /\ pc' = [pc EXCEPT ![r] = "readSubmissions"]
  /\ UNCHANGED <<clients, submissions, questions, answers, qj, pos, planned,
                 completed, failed, runWarnings, pending, res, calls, inserts, tally>>
  /\ UNCHANGED storeVars
  /\ UNCHANGED uiVars

\* the request arrives: validation of queueId, then read 1 is issued
Request(r, q) ==
  /\ r \in clients
  /\ pc[r] = "idle"
  /\ queueId' = [queueId EXCEPT ![r] = q]
  /\ IF q = ""
     THEN /\ res' = [res EXCEPT ![r] = BadRequest]
          /\ pc' = [pc EXCEPT ![r] = "done"]
     ELSE /\ pc' = [pc EXCEPT ![r] = "readSubmissions"]
          /\ UNCHANGED res
  /\ UNCHANGED <<clients, submissions, questions, answers, qj, pos, planned,
                 completed, failed, runWarnings, pending, calls, inserts, tally>>
  /\ UNCHANGED storeVars
  /\ UNCHANGED uiVars

\* Abort that answers with the summary of the counters so far
AbortWithSummary(r, err) ==
  /\ res' = [res EXCEPT ![r] = Summary(r)]
  /\ pc' = [pc EXCEPT ![r] = "done"]

\* a thrown store error reaches the outer catch
Abort(r, err) ==
  /\ res' = [res EXCEPT ![r] = ServerError(err)]
  /\ pc' = [pc EXCEPT ![r] = "done"]

\* read 1 returns
ReadSubmissions(r, result) ==
  /\ pc[r] = "readSubmissions"
  /\ IF ~result.ok
     THEN /\ Abort(r, result.error)
          /\ UNCHANGED submissions
     ELSE /\ submissions' =
               [submissions EXCEPT ![r] = SelectByQueue(dbSubmissions, queueId[r])]
          /\ pc' = [pc EXCEPT ![r] = "readQuestions"]
          /\ UNCHANGED res
  /\ UNCHANGED <<clients, queueId, questions, answers, qj, pos, planned,
                 completed, failed, runWarnings, pending, calls, inserts, tally>>
  /\ UNCHANGED storeVars
  /\ UNCHANGED uiVars

\* read 2 returns; read 3 is skipped when no submission was loaded
ReadQuestions(r, result) ==
  /\ pc[r] = "readQuestions"
  /\ IF ~result.ok
     THEN /\ Abort(r, result.error)
          /\ UNCHANGED questions
     ELSE /\ questions' =
               [questions EXCEPT ![r] = SelectByQueue(dbQuestions, queueId[r])]
          /\ pc' = [pc EXCEPT ![r] =
                      IF Len(submissions[r]) > 0 THEN "readAnswers" ELSE "readAssignments"]
          /\ UNCHANGED res
  /\ UNCHANGED <<clients, queueId, submissions, answers, qj, pos, planned,
                 completed, failed, runWarnings, pending, calls, inserts, tally>>
  /\ UNCHANGED storeVars
  /\ UNCHANGED uiVars

\* read 3 returns
ReadAnswers(r, result) ==
  /\ pc[r] = "readAnswers"
  /\ IF ~result.ok
     THEN /\ Abort(r, result.error)
          /\ UNCHANGED answers
     ELSE /\ answers' =
               [answers EXCEPT ![r] =
                  SelectAnswers(dbAnswers, {s.id : s \in Range(submissions[r])})]
          /\ pc' = [pc EXCEPT ![r] = "readAssignments"]
          /\ UNCHANGED res
  /\ UNCHANGED <<clients, queueId, submissions, questions, qj, pos, planned,
                 completed, failed, runWarnings, pending, calls, inserts, tally>>
  /\ UNCHANGED storeVars
  /\ UNCHANGED uiVars

\* read 4 returns; the short-circuit, or the loops are entered
ReadAssignments(r, result) ==
  /\ pc[r] = "readAssignments"
  /\ IF ~result.ok
     THEN /\ Abort(r, result.error)
          /\ UNCHANGED <<qj, pos>>
     ELSE LET rows == SelectAssignments(dbQuestionJudges, dbJudges, queueId[r]) IN
          /\ qj' = [qj EXCEPT ![r] = rows]
          /\ IF NothingToDo(submissions[r], questions[r], rows)
             THEN /\ res' = [res EXCEPT ![r] = NothingToEvaluate]
                  /\ pc' = [pc EXCEPT ![r] = "done"]
                  /\ UNCHANGED pos
             ELSE /\ pos' = [pos EXCEPT ![r] = [s |-> 1, q |-> 1, a |-> 0]]
                  /\ pc' = [pc EXCEPT ![r] = "loop"]
                  /\ UNCHANGED res
  /\ UNCHANGED <<clients, queueId, submissions, questions, answers, planned,
                 completed, failed, runWarnings, pending, calls, inserts, tally>>
  /\ UNCHANGED storeVars
  /\ UNCHANGED uiVars

\* Advance that sends no response when the loops are over
AdvanceWithoutResponse(r) ==
  /\ pc[r] = "loop"
  /\ LET p == NextUnit(submissions[r], questions[r], answers[r], qj[r],
                       pos[r].s, pos[r].q, pos[r].a)
     IN /\ p # NoUnit
        /\ pos' = [pos EXCEPT ![r] = p]
        /\ planned' = [planned EXCEPT ![r] = @ + 1]
        /\ calls' = [calls EXCEPT ![r] = Append(@, UnitAt(r, p))]
        /\ pc' = [pc EXCEPT ![r] = "generate"]
        /\ UNCHANGED res
  /\ UNCHANGED <<clients, queueId, submissions, questions, answers, qj,
                 completed, failed, runWarnings, pending, inserts, tally>>
  /\ UNCHANGED storeVars
  /\ UNCHANGED uiVars

\* the loop headers: the next unit is planned and its gateway call issued,
\* or the loops are over and the summary is sent
Advance(r) ==
  /\ pc[r] = "loop"
  /\ LET p == NextUnit(submissions[r], questions[r], answers[r], qj[r],
                       pos[r].s, pos[r].q, pos[r].a)
     IN IF p = NoUnit
        THEN /\ res' = [res EXCEPT ![r] = Summary(r)]
             /\ pc' = [pc EXCEPT ![r] = "done"]
             /\ UNCHANGED <<pos, planned, calls>>
        ELSE /\ pos' = [pos EXCEPT ![r] = p]
             /\ planned' = [planned EXCEPT ![r] = @ + 1]
             /\ calls' = [calls EXCEPT ![r] = Append(@, UnitAt(r, p))]
             /\ pc' = [pc EXCEPT ![r] = "generate"]
             /\ UNCHANGED res
  /\ UNCHANGED <<clients, queueId, submissions, questions, answers, qj,
                 completed, failed, runWarnings, pending, inserts, tally>>
  /\ UNCHANGED storeVars
  /\ UNCHANGED uiVars

\* FailUnit without failed++
FailUnitUncounted(r, warning) ==
  /\ runWarnings' = [runWarnings EXCEPT ![r] = SetAdd(@, warning)]
  /\ pc' = [pc EXCEPT ![r] = "loop"]
  /\ UNCHANGED <<failed, res>>

\* FailUnit that rethrows to the outer catch instead of continuing
FailUnitAborts(r, warning) ==
  /\ failed' = [failed EXCEPT ![r] = @ + 1]
  /\ runWarnings' = [runWarnings EXCEPT ![r] = SetAdd(@, warning)]
  /\ Abort(r, TypeError)

\* FailUnit that calls the gateway again for the same unit
FailUnitRetries(r, warning) ==
  /\ runWarnings' = [runWarnings EXCEPT ![r] = SetAdd(@, warning)]
  /\ pc' = [pc EXCEPT ![r] = "generate"]
  /\ UNCHANGED <<failed, res>>

\* FailUnit that adds no warning
FailUnitSilent(r, warning) ==
  /\ failed' = [failed EXCEPT ![r] = @ + 1]
  /\ pc' = [pc EXCEPT ![r] = "loop"]
  /\ UNCHANGED <<runWarnings, res>>

\* failed++; runWarnings.add(warning); continue
FailUnit(r, warning) ==
  /\ failed' = [failed EXCEPT ![r] = @ + 1]
  /\ runWarnings' = [runWarnings EXCEPT ![r] = SetAdd(@, warning)]
  /\ pc' = [pc EXCEPT ![r] = "loop"]
  /\ UNCHANGED res

\* GenerateContent that issues the insert without awaiting it
GenerateContentInsertUnawaited(r, outcome) ==
  /\ pc[r] = "generate"
  /\ LET result == UnitResult(outcome)
         unit == UnitAt(r, pos[r])
     IN /\ tally' = [tally EXCEPT ![r][result.kind] = @ + 1]
        /\ IF result.insert
           THEN /\ pending' = [pending EXCEPT ![r] =
                     EvaluationRow(unit.submission_id, unit.question_id, unit.judge_id,
                                   result.verdict, result.reasoning)]
                /\ pc' = [pc EXCEPT ![r] = "loop"]
                /\ UNCHANGED <<failed, runWarnings, res>>
           ELSE /\ FailUnit(r, result.warning)
                /\ UNCHANGED pending
  /\ UNCHANGED <<clients, queueId, submissions, questions, answers, qj, pos,
                 planned, completed, calls, inserts>>
  /\ UNCHANGED storeVars
  /\ UNCHANGED uiVars

\* ai.models.generateContent settles: the rest of the try block up to the insert
GenerateContent(r, outcome) ==
  /\ pc[r] = "generate"
  /\ LET result == UnitResult(outcome)
         unit == UnitAt(r, pos[r])
     IN /\ tally' = [tally EXCEPT ![r][result.kind] = @ + 1]
        /\ IF result.insert
           THEN /\ pending' = [pending EXCEPT ![r] =
                     EvaluationRow(unit.submission_id, unit.question_id, unit.judge_id,
                                   result.verdict, result.reasoning)]
                /\ pc' = [pc EXCEPT ![r] = "insert"]
                /\ UNCHANGED <<failed, runWarnings, res>>
           ELSE /\ FailUnit(r, result.warning)
                /\ UNCHANGED pending
  /\ UNCHANGED <<clients, queueId, submissions, questions, answers, qj, pos,
                 planned, completed, calls, inserts>>
  /\ UNCHANGED storeVars
  /\ UNCHANGED uiVars

\* InsertEvaluation without the test of the insert's error
InsertEvaluationCountsUnsaved(r, result) ==
  /\ pc[r] = "insert"
  /\ inserts' = [inserts EXCEPT ![r] = @ + 1]
  /\ tally' = [tally EXCEPT ![r][IF result.ok THEN "saved" ELSE "unsaved"] = @ + 1]
  /\ IF result.ok
     THEN dbEvaluations' = Append(dbEvaluations, pending[r])
     ELSE UNCHANGED dbEvaluations
  /\ completed' = [completed EXCEPT ![r] = @ + 1]
  /\ pc' = [pc EXCEPT ![r] = "loop"]
  /\ pending' = [pending EXCEPT ![r] = NoRow]
  /\ UNCHANGED <<clients, queueId, submissions, questions, answers, qj, pos,
                 planned, failed, runWarnings, res, calls>>
  /\ UNCHANGED <<dbSubmissions, dbQuestions, dbAnswers, dbJudges,
                 dbQuestionJudges, nextId>>
  /\ UNCHANGED uiVars

\* the rows with row put in place of the first row of its triple
Replaced(rows, row) ==
  LET hits == {i \in 1..Len(rows) :
                 /\ rows[i].submission_id = row.submission_id
                 /\ rows[i].question_id = row.question_id
                 /\ rows[i].judge_id = row.judge_id}
      first == CHOOSE i \in hits : \A k \in hits : i <= k
  IN IF hits = {} THEN Append(rows, row) ELSE [rows EXCEPT ![first] = row]

\* InsertEvaluation as an upsert on (submission, question, judge)
InsertEvaluationUpsert(r, result) ==
  /\ pc[r] = "insert"
  /\ inserts' = [inserts EXCEPT ![r] = @ + 1]
  /\ tally' = [tally EXCEPT ![r][IF result.ok THEN "saved" ELSE "unsaved"] = @ + 1]
  /\ IF result.ok
     THEN /\ dbEvaluations' = Replaced(dbEvaluations, pending[r])
          /\ completed' = [completed EXCEPT ![r] = @ + 1]
          /\ pc' = [pc EXCEPT ![r] = "loop"]
          /\ UNCHANGED <<failed, runWarnings, res>>
     ELSE /\ FailUnit(r, WARN_SAVE)
          /\ UNCHANGED <<dbEvaluations, completed>>
  /\ pending' = [pending EXCEPT ![r] = NoRow]
  /\ UNCHANGED <<clients, queueId, submissions, questions, answers, qj, pos,
                 planned, calls>>
  /\ UNCHANGED <<dbSubmissions, dbQuestions, dbAnswers, dbJudges,
                 dbQuestionJudges, nextId>>
  /\ UNCHANGED uiVars

\* InsertEvaluation that also deletes the assignment it has evaluated
InsertEvaluationConsumesAssignment(r, result) ==
  /\ pc[r] = "insert"
  /\ inserts' = [inserts EXCEPT ![r] = @ + 1]
  /\ tally' = [tally EXCEPT ![r][IF result.ok THEN "saved" ELSE "unsaved"] = @ + 1]
  /\ IF result.ok
     THEN /\ dbEvaluations' = Append(dbEvaluations, pending[r])
          /\ dbQuestionJudges' =
               SeqFilter(dbQuestionJudges,
                         {x \in Range(dbQuestionJudges) :
                            ~(/\ x.queue_id = queueId[r]
                              /\ x.question_id = pending[r].question_id
                              /\ x.judge_id = pending[r].judge_id)})
          /\ completed' = [completed EXCEPT ![r] = @ + 1]
          /\ pc' = [pc EXCEPT ![r] = "loop"]
          /\ UNCHANGED <<failed, runWarnings, res>>
     ELSE /\ FailUnit(r, WARN_SAVE)
          /\ UNCHANGED <<dbEvaluations, dbQuestionJudges, completed>>
  /\ pending' = [pending EXCEPT ![r] = NoRow]
  /\ UNCHANGED <<clients, queueId, submissions, questions, answers, qj, pos,
                 planned, calls>>
  /\ UNCHANGED <<dbSubmissions, dbQuestions, dbAnswers, dbJudges, nextId>>
  /\ UNCHANGED uiVars

\* supabase.from("evaluations").insert(...) settles
\* InsertEvaluation with a completed counter that the runs share
InsertEvaluationSharedCounter(r, result) ==
  /\ pc[r] = "insert"
  /\ inserts' = [inserts EXCEPT ![r] = @ + 1]
  /\ tally' = [tally EXCEPT ![r][IF result.ok THEN "saved" ELSE "unsaved"] = @ + 1]
  /\ IF result.ok
     THEN /\ dbEvaluations' = Append(dbEvaluations, pending[r])
          /\ completed' = [x \in Runs |-> IF pc[x] = "idle" THEN completed[x]
                                          ELSE completed[x] + 1]
          /\ pc' = [pc EXCEPT ![r] = "loop"]
          /\ UNCHANGED <<failed, runWarnings, res>>
     ELSE /\ FailUnit(r, WARN_SAVE)
          /\ UNCHANGED <<dbEvaluations, completed>>
  /\ pending' = [pending EXCEPT ![r] = NoRow]
  /\ UNCHANGED <<clients, queueId, submissions, questions, answers, qj, pos,
                 planned, calls>>
  /\ UNCHANGED <<dbSubmissions, dbQuestions, dbAnswers, dbJudges,
                 dbQuestionJudges, nextId>>
  /\ UNCHANGED uiVars

InsertEvaluation(r, result) ==
  /\ pc[r] = "insert"
  /\ inserts' = [inserts EXCEPT ![r] = @ + 1]
  /\ tally' = [tally EXCEPT ![r][IF result.ok THEN "saved" ELSE "unsaved"] = @ + 1]
  /\ IF result.ok
     THEN /\ dbEvaluations' = Append(dbEvaluations, pending[r])
          /\ completed' = [completed EXCEPT ![r] = @ + 1]
          /\ pc' = [pc EXCEPT ![r] = "loop"]
          /\ UNCHANGED <<failed, runWarnings, res>>
     ELSE /\ FailUnit(r, WARN_SAVE)
          /\ UNCHANGED <<dbEvaluations, completed>>
  /\ pending' = [pending EXCEPT ![r] = NoRow]
  /\ UNCHANGED <<clients, queueId, submissions, questions, answers, qj, pos,
                 planned, calls>>
  /\ UNCHANGED <<dbSubmissions, dbQuestions, dbAnswers, dbJudges,
                 dbQuestionJudges, nextId>>
  /\ UNCHANGED uiVars

RunStep(r) ==
  \/ \E q \in QueueIds : Request(r, q)
  \/ \E result \in StoreResults : ReadSubmissions(r, result)
  \/ \E result \in StoreResults : ReadQuestions(r, result)
  \/ \E result \in StoreResults : ReadAnswers(r, result)
  \/ \E result \in StoreResults : ReadAssignments(r, result)
  \/ Advance(r)
  \/ \E outcome \in GatewayOutcomes : GenerateContent(r, outcome)
  \/ \E result \in StoreResults : InsertEvaluation(r, result)

----------------------------------------------------------------------------
(* The pages that change assignments and judges while a run is going on:   *)
(* QueuePage (of queue Q1) and JudgesPage                                  *)

\* the page's queue
PageQueue == "Q1"

\* the questions the QueuePage lists
PageQuestions == {"A", "B"}

\* QueuePage.isAssigned
isAssigned(questionId, judgeId) ==
  \E i \in 1..Len(questionJudges) :
     /\ questionJudges[i].question_id = questionId
     /\ questionJudges[i].judge_id = judgeId

\* a sequence without its i-th element
RemoveAt(seq, i) == SubSeq(seq, 1, i - 1) \o SubSeq(seq, i + 1, Len(seq))

\* .delete().eq("queue_id", ..).eq("question_id", ..).eq("judge_id", ..), and
\* the same filter on the page's rows
WithoutAssignment(rows, queue, questionId, judgeId) ==
  SeqFilter(rows, {x \in Range(rows) :
                     ~(/\ x.queue_id = queue
                       /\ x.question_id = questionId
                       /\ x.judge_id = judgeId)})

\* useState<RunStatus>({ kind: "idle", message: "" }); a message is kept as
\* the sequence of the parts it is concatenated from
Idle == [kind |-> "idle", message |-> <<>>]

\* the page is loaded from the store
InitPages ==
  /\ questionJudges = SelectByQueue(dbQuestionJudges, PageQueue)
  /\ toggles = <<>>
  /\ judges = [j \in DOMAIN dbJudges |-> dbJudges[j].active]
  /\ activations = <<>>
  /\ uiOps = 0
  /\ listedQuestions = SelectByQueue(dbQuestions, PageQueue)
  /\ listedJudges = {j \in DOMAIN dbJudges : dbJudges[j].active}
  /\ isRunning = FALSE
  /\ runStatus = Idle
  /\ fetches = {}
  /\ evaluations = <<>>
  /\ selectedJudgeIds = <<>>
  /\ selectedQuestionIds = <<>>
  /\ selectedVerdicts = <<>>

\* handleToggle up to its await: the checkbox of (question, judge) is clicked
HandleToggle(questionId, judgeId) ==
  /\ uiOps < MaxUiOps
  /\ uiOps' = uiOps + 1
  /\ toggles' = Append(toggles, [question_id |-> questionId, judge_id |-> judgeId,
                                 checked |-> ~isAssigned(questionId, judgeId)])
  /\ UNCHANGED <<questionJudges, judges, activations>>
  /\ UNCHANGED <<queuePageVars, resultsVars>>
  /\ UNCHANGED <<storeVars, runVars>>

\* the store call of the i-th handleToggle in flight settles
HandleToggleSettled(i, result) ==
  /\ i \in 1..Len(toggles)
  /\ toggles' = RemoveAt(toggles, i)
  /\ LET t == toggles[i]
         data == AssignmentRow(nextId, PageQueue, t.question_id, t.judge_id)
     IN IF ~result.ok
        THEN UNCHANGED <<dbQuestionJudges, nextId, questionJudges>>
        ELSE IF t.checked
        THEN /\ dbQuestionJudges' = Append(dbQuestionJudges, data)
             /\ nextId' = nextId + 1
             /\ questionJudges' = Append(questionJudges, data)
        ELSE /\ dbQuestionJudges' =
                  WithoutAssignment(dbQuestionJudges, PageQueue, t.question_id, t.judge_id)
             /\ questionJudges' =
                  WithoutAssignment(questionJudges, PageQueue, t.question_id, t.judge_id)
             /\ UNCHANGED nextId
  /\ UNCHANGED <<judges, activations, uiOps>>
  /\ UNCHANGED <<queuePageVars, resultsVars>>
  /\ UNCHANGED <<dbSubmissions, dbQuestions, dbAnswers, dbJudges, dbEvaluations>>
  /\ UNCHANGED runVars

\* handleToggleActive up to its await: the switch of a judge is clicked
HandleToggleActive(judgeId) ==
  /\ uiOps < MaxUiOps
  /\ uiOps' = uiOps + 1
  /\ judgeId \in DOMAIN judges
  /\ judges' = [judges EXCEPT ![judgeId] = ~judges[judgeId]]
  /\ activations' = Append(activations, [judge_id |-> judgeId,
                                         newActive |-> ~judges[judgeId],
                                         active |-> judges[judgeId]])
  /\ UNCHANGED <<questionJudges, toggles>>
  /\ UNCHANGED <<queuePageVars, resultsVars>>
  /\ UNCHANGED <<storeVars, runVars>>

\* the store call of the i-th handleToggleActive in flight settles
HandleToggleActiveSettled(i, result) ==
  /\ i \in 1..Len(activations)
  /\ activations' = RemoveAt(activations, i)
  /\ LET t == activations[i] IN
     IF result.ok
     THEN /\ dbJudges' = [dbJudges EXCEPT ![t.judge_id].active = t.newActive]
          /\ UNCHANGED judges
     ELSE /\ judges' = [judges EXCEPT ![t.judge_id] = t.active]
          /\ UNCHANGED dbJudges
  /\ UNCHANGED <<questionJudges, toggles, uiOps>>
  /\ UNCHANGED <<queuePageVars, resultsVars>>
  /\ UNCHANGED <<dbSubmissions, dbQuestions, dbAnswers, dbQuestionJudges,
                 dbEvaluations, nextId>>
  /\ UNCHANGED runVars

UiStep ==
  \/ \E questionId \in PageQuestions, judgeId \in JudgeIds :
        HandleToggle(questionId, judgeId)
  \/ \E i \in 1..MaxUiOps, result \in StoreResults : HandleToggleSettled(i, result)
  \/ \E judgeId \in JudgeIds : HandleToggleActive(judgeId)
  \/ \E i \in 1..MaxUiOps, result \in StoreResults : HandleToggleActiveSettled(i, result)


----------------------------------------------------------------------------
(* QueuePage.handleRunJudges: the Run button, the request to the run       *)
(* endpoint and what the page makes of the answer                          *)

\* the texts of the statuses; the ellipsis and the dash of the source are
\* written in ASCII
MSG_NO_QUESTIONS == "There are no questions in this queue. Import data first."

MSG_NO_JUDGES == "No active judges found. Create and activate judges first."

MSG_NO_ASSIGNMENTS ==
  "No judge assignments found. Assign at least one judge to a question before running."

MSG_RUNNING == "Running AI judges..."

MSG_FAILED == "Failed to run AI judges."

MSG_NETWORK ==
  "Failed to run AI judges. Possible network or backend error - check backend logs."

\* setRunStatus({ kind, message })
Status(kind, message) == [kind |-> kind, message |-> message]

\* the ways the awaited fetch can settle: a response whose body is JSON, a
\* response whose body is not, a rejected fetch
Settlements == {"json", "unparseable", "rejected"}

\* HandleRunJudges without the test of the assignments
HandleRunJudgesNoAssignmentTest(r) ==
  /\ ~isRunning
  /\ r \notin clients
  /\ IF Len(listedQuestions) = 0
     THEN /\ runStatus' = Status("error", <<MSG_NO_QUESTIONS>>)
          /\ UNCHANGED <<isRunning, fetches, clients>>
     ELSE IF listedJudges = {}
     THEN /\ runStatus' = Status("error", <<MSG_NO_JUDGES>>)
          /\ UNCHANGED <<isRunning, fetches, clients>>
     ELSE /\ isRunning' = TRUE
          /\ runStatus' = Status("info", <<MSG_RUNNING>>)
          /\ fetches' = fetches \cup {r}
          /\ clients' = clients \cup {r}
  /\ UNCHANGED <<listedQuestions, listedJudges>>
  /\ UNCHANGED <<questionJudges, toggles, judges, activations, uiOps, resultsVars>>
  /\ UNCHANGED <<pc, queueId, submissions, questions, answers, qj, pos, planned,
                 completed, failed, runWarnings, pending, res, calls, inserts, tally>>
  /\ UNCHANGED storeVars

\* HandleRunJudges on a button that is not disabled while a run is going on
HandleRunJudgesButtonEnabled(r) ==
  /\ r \notin clients
  /\ IF Len(listedQuestions) = 0
     THEN /\ runStatus' = Status("error", <<MSG_NO_QUESTIONS>>)
          /\ UNCHANGED <<isRunning, fetches, clients>>
     ELSE IF listedJudges = {}
     THEN /\ runStatus' = Status("error", <<MSG_NO_JUDGES>>)
          /\ UNCHANGED <<isRunning, fetches, clients>>
     ELSE IF Len(questionJudges) = 0
     THEN /\ runStatus' = Status("error", <<MSG_NO_ASSIGNMENTS>>)
          /\ UNCHANGED <<isRunning, fetches, clients>>
     ELSE /\ isRunning' = TRUE
          /\ runStatus' = Status("info", <<MSG_RUNNING>>)
          /\ fetches' = fetches \cup {r}
          /\ clients' = clients \cup {r}
  /\ UNCHANGED <<listedQuestions, listedJudges>>
  /\ UNCHANGED <<questionJudges, toggles, judges, activations, uiOps, resultsVars>>
  /\ UNCHANGED <<pc, queueId, submissions, questions, answers, qj, pos, planned,
                 completed, failed, runWarnings, pending, res, calls, inserts, tally>>
  /\ UNCHANGED storeVars

\* the click on the Run button, up to the await of fetch; r is the run the
\* request starts when one is sent
HandleRunJudges(r) ==
  /\ ~isRunning
  /\ r \notin clients
  /\ IF Len(listedQuestions) = 0
     THEN /\ runStatus' = Status("error", <<MSG_NO_QUESTIONS>>)
          /\ UNCHANGED <<isRunning, fetches, clients>>
     ELSE IF listedJudges = {}
     THEN /\ runStatus' = Status("error", <<MSG_NO_JUDGES>>)
          /\ UNCHANGED <<isRunning, fetches, clients>>
     ELSE IF Len(questionJudges) = 0
     THEN /\ runStatus' = Status("error", <<MSG_NO_ASSIGNMENTS>>)
          /\ UNCHANGED <<isRunning, fetches, clients>>
     ELSE /\ isRunning' = TRUE
          /\ runStatus' = Status("info", <<MSG_RUNNING>>)
          /\ fetches' = fetches \cup {r}
          /\ clients' = clients \cup {r}
  /\ UNCHANGED <<listedQuestions, listedJudges>>
  /\ UNCHANGED <<questionJudges, toggles, judges, activations, uiOps, resultsVars>>
  /\ UNCHANGED <<pc, queueId, submissions, questions, answers, qj, pos, planned,
                 completed, failed, runWarnings, pending, res, calls, inserts, tally>>
  /\ UNCHANGED storeVars

\* data?.planned ?? 0 and its like, in the summary text
Shown(data, field) ==
  IF field \in DOMAIN data THEN ToString(data[field]) ELSE "0"

\* the status the page shows for an answer with a success status
OkStatus(data) ==
  LET note == IF "note" \in DOMAIN data THEN <<data.note>> ELSE <<>>
      warnings == IF "warnings" \in DOMAIN data THEN data.warnings ELSE <<>>
  IN Status(IF Len(warnings) > 0 THEN "error" ELSE "success",
            <<Shown(data, "planned"), Shown(data, "completed"), Shown(data, "failed")>>
              \o note \o warnings)

\* the status the page shows for an answer with an error status
NotOkStatus(data) ==
  Status("error",
         <<IF "error" \in DOMAIN data THEN data.error ELSE MSG_FAILED>>
           \o IF "hint" \in DOMAIN data THEN <<data.hint>> ELSE <<>>)

\* the awaited fetch of run r settles: the rest of handleRunJudges
HandleRunJudgesSettled(r, how) ==
  /\ r \in fetches
  /\ how \in {"json", "unparseable"} => pc[r] = "done"
  /\ LET data == IF how = "json" THEN res[r] ELSE [status |-> res[r].status] IN
     runStatus' =
       IF how = "rejected" THEN Status("error", <<MSG_NETWORK>>)
       ELSE IF res[r].status # HTTP_OK THEN NotOkStatus(data)
       ELSE OkStatus(data)
  /\ isRunning' = FALSE
  /\ fetches' = fetches \ {r}
  /\ UNCHANGED <<listedQuestions, listedJudges>>
  /\ UNCHANGED <<questionJudges, toggles, judges, activations, uiOps, resultsVars>>
  /\ UNCHANGED <<storeVars, runVars>>

vars == <<storeVars, runVars, uiVars>>

Init ==
  /\ InitStore
  /\ InitRuns
  /\ clients = {"r1"}
  /\ InitPages

Next == \E r \in Runs : RunStep(r)

Spec == Init /\ [][Next]_vars

----------------------------------------------------------------------------
(* A run whose awaited calls all return                                    *)

\* a store call that run r awaits returns, or its loop goes on
StoreStep(r) ==
  \/ \E result \in StoreResults : ReadSubmissions(r, result)
  \/ \E result \in StoreResults : ReadQuestions(r, result)
  \/ \E result \in StoreResults : ReadAnswers(r, result)
  \/ \E result \in StoreResults : ReadAssignments(r, result)
  \/ Advance(r)
  \/ \E result \in StoreResults : InsertEvaluation(r, result)

\* the gateway call that run r awaits returns
GatewayStep(r) == \E outcome \in GatewayOutcomes : GenerateContent(r, outcome)

InitFair ==
  /\ \E n \in 0..MaxSubmissions :
       /\ dbSubmissions = SubmissionsTable(n)
       /\ dbAnswers = AnswersTable("all", n)
  /\ dbQuestions \in QuestionsTables
  /\ dbJudges = [j \in JudgeIds |-> [active |-> j = "J1"]]
  /\ dbQuestionJudges \in AssignmentsTables
  /\ dbEvaluations = <<>>
  /\ nextId = 4
  /\ \A queue \in QueueIds : Len(StorePlan(queue)) <= MaxUnits
  /\ InitRuns
  /\ clients = {"r1"}
  /\ InitPages

SpecFair ==
  /\ InitFair
  /\ [][Next]_vars
  /\ \A r \in Runs : WF_vars(StoreStep(r)) /\ WF_vars(GatewayStep(r))

----------------------------------------------------------------------------

(* A run interleaved with the pages' handlers, from one store             *)

\* the gateway answers considered next to the UI handlers
FewGatewayOutcomes ==
  { o \in GatewayOutcomes :
      \/ o.throws /\ o.error = MkErr(0, <<"request", "timeout">>)
      \/ ~o.throws /\ o.response.text \in {<<Obj("pass", "ok")>>, <<Lit("array")>>} }

InitUi ==
  /\ dbSubmissions = SubmissionsTable(1)
  /\ dbQuestions = <<QuestionRow("A", "Q1"), QuestionRow("C", "Q2"), QuestionRow("B", "Q1")>>
  /\ dbAnswers = AnswersTable("all", 1)
  /\ dbJudges = [j \in JudgeIds |-> [active |-> TRUE]]
  /\ dbQuestionJudges =
       <<AssignmentRow(1, "Q1", "A", "J1"), AssignmentRow(2, "Q2", "C", "J1"),
         AssignmentRow(3, "Q1", "B", "J2")>>
  /\ dbEvaluations = <<>>
  /\ nextId = 4
  /\ InitRuns
  /\ clients = {"r1"}
  /\ InitPages

RunStepUi(r) ==
  \/ Request(r, PageQueue)
  \/ \E result \in StoreResults : ReadSubmissions(r, result)
  \/ \E result \in StoreResults : ReadQuestions(r, result)
  \/ \E result \in StoreResults : ReadAnswers(r, result)
  \/ \E result \in StoreResults : ReadAssignments(r, result)
  \/ Advance(r)
  \/ \E outcome \in FewGatewayOutcomes : GenerateContent(r, outcome)
  \/ \E result \in StoreResults : InsertEvaluation(r, result)

NextUi ==
  \/ \E r \in Runs : RunStepUi(r)
  \/ UiStep

SpecUi == InitUi /\ [][NextUi]_vars

----------------------------------------------------------------------------
(* Two runs requested for the same queue, over store data that no page    *)
(* changes                                                                 *)

InitTwoRuns ==
  /\ dbSubmissions = SubmissionsTable(1)
  /\ dbQuestions = <<QuestionRow("A", "Q1"), QuestionRow("C", "Q2"), QuestionRow("B", "Q1")>>
  /\ dbAnswers = AnswersTable("all", 1)
  /\ dbJudges = [j \in JudgeIds |-> [active |-> TRUE]]
  /\ dbQuestionJudges =
       <<AssignmentRow(1, "Q1", "A", "J1"), AssignmentRow(2, "Q2", "C", "J1"),
         AssignmentRow(3, "Q1", "B", "J2")>>
  /\ dbEvaluations = <<>>
  /\ nextId = 4
  /\ InitRuns
  /\ clients = Runs
  /\ InitPages

NextTwoRuns == \E r \in Runs : RunStepUi(r)

SpecTwoRuns == InitTwoRuns /\ [][NextTwoRuns]_vars

----------------------------------------------------------------------------

(* Two runs requested at once, each for a queue of its own choice          *)

RunStepQueues(r) ==
  \/ \E q \in {"Q1", "Q2"} : Request(r, q)
  \/ \E result \in StoreResults : ReadSubmissions(r, result)
  \/ \E result \in StoreResults : ReadQuestions(r, result)
  \/ \E result \in StoreResults : ReadAnswers(r, result)
  \/ \E result \in StoreResults : ReadAssignments(r, result)
  \/ Advance(r)
  \/ \E outcome \in FewGatewayOutcomes : GenerateContent(r, outcome)
  \/ \E result \in StoreResults : InsertEvaluation(r, result)

NextConcurrent == \E r \in Runs : RunStepQueues(r)

SpecConcurrent == InitTwoRuns /\ [][NextConcurrent]_vars

----------------------------------------------------------------------------

(* The ResultsPage: filters over the evaluations it loaded                 *)

RECURSIVE Reverse(_)
Reverse(seq) ==
  IF seq = <<>> THEN <<>> ELSE Append(Reverse(Tail(seq)), Head(seq))

\* the rows of loadData's evaluations query as the page keeps them; id is
\* the row's place in the table
Enriched(rows) ==
  [i \in 1..Len(rows) |->
     [id |-> i, submissionId |-> rows[i].submission_id,
      questionId |-> rows[i].question_id, judgeId |-> rows[i].judge_id,
      verdict |-> rows[i].verdict, reasoning |-> rows[i].reasoning]]

\* the checkboxes of the verdict filter
VerdictOptions == {"pass", "fail", "inconclusive"}

\* toggleInArray without the test for a value already selected
toggleInArrayUnguarded(current, value, checked) ==
  IF checked THEN Append(current, value)
  ELSE SeqFilter(current, Range(current) \ {value})

toggleInArray(current, value, checked) ==
  IF checked
  THEN IF value \in Range(current) THEN current ELSE Append(current, value)
  ELSE SeqFilter(current, Range(current) \ {value})

\* the predicate of evaluations.filter: three tests that return false
Passes(e) ==
  IF Len(selectedJudgeIds) > 0 /\ e.judgeId \notin Range(selectedJudgeIds)
  THEN FALSE
  ELSE IF Len(selectedQuestionIds) > 0 /\ e.questionId \notin Range(selectedQuestionIds)
  THEN FALSE
  ELSE IF Len(selectedVerdicts) > 0 /\ e.verdict \notin Range(selectedVerdicts)
  THEN FALSE
  ELSE TRUE

filteredEvaluations ==
  SeqFilter(evaluations, {e \in Range(evaluations) : Passes(e)})

total == Len(filteredEvaluations)

passCount ==
  Len(SeqFilter(filteredEvaluations,
                {e \in Range(filteredEvaluations) : e.verdict = "pass"}))

\* the evaluations tables the page may find in the store: none; one run of
\* two submissions; a run and a rerun with a verdict outside the three
\* options; rows of a judge that has since been deleted
EvaluationsTables ==
  { <<>>,
    <<EvaluationRow(1, "A", "J1", "pass", "ok"), EvaluationRow(1, "B", "J2", "fail", "ok"),
      EvaluationRow(2, "A", "J1", "inconclusive", "ok")>>,
    <<EvaluationRow(1, "A", "J1", "pass", "ok"), EvaluationRow(1, "A", "J1", "pass", "ok"),
      EvaluationRow(1, "A", "J2", "maybe", "ok")>>,
    <<EvaluationRow(1, "C", "J3", "fail", "ok"), EvaluationRow(1, "A", "J1", "pass", "ok"),
      EvaluationRow(1, "B", "J1", "fail", "ok")>> }

InitResultsPage ==
  /\ dbSubmissions = SubmissionsTable(2)
  /\ dbQuestions = <<QuestionRow("A", "Q1"), QuestionRow("C", "Q2"), QuestionRow("B", "Q1")>>
  /\ dbAnswers = AnswersTable("all", 2)
  /\ dbJudges = [j \in JudgeIds |-> [active |-> TRUE]]
  /\ dbQuestionJudges = <<>>
  /\ dbEvaluations \in EvaluationsTables
  /\ nextId = 4
  /\ InitRuns
  /\ clients = {}
  /\ questionJudges = <<>>
  /\ toggles = <<>>
  /\ judges = [j \in DOMAIN dbJudges |-> dbJudges[j].active]
  /\ activations = <<>>
  /\ uiOps = 0
  /\ listedQuestions = SelectByQueue(dbQuestions, PageQueue)
  /\ listedJudges = DOMAIN dbJudges
  /\ isRunning = FALSE
  /\ runStatus = Idle
  /\ fetches = {}
  /\ evaluations = Reverse(Enriched(dbEvaluations))
  /\ selectedJudgeIds = <<>>
  /\ selectedQuestionIds = <<>>
  /\ selectedVerdicts = <<>>

\* the checkbox of judge j changes to checked
ToggleJudge(j, checked) ==
  /\ selectedJudgeIds' = toggleInArray(selectedJudgeIds, j, checked)
  /\ UNCHANGED <<evaluations, selectedQuestionIds, selectedVerdicts>>
  /\ UNCHANGED <<questionJudges, toggles, judges, activations, uiOps, queuePageVars>>
  /\ UNCHANGED <<storeVars, runVars>>

\* the checkbox of question q changes to checked
ToggleQuestion(q, checked) ==
  /\ selectedQuestionIds' = toggleInArray(selectedQuestionIds, q, checked)
  /\ UNCHANGED <<evaluations, selectedJudgeIds, selectedVerdicts>>
  /\ UNCHANGED <<questionJudges, toggles, judges, activations, uiOps, queuePageVars>>
  /\ UNCHANGED <<storeVars, runVars>>

\* the checkbox of verdict v changes to checked
ToggleVerdict(v, checked) ==
  /\ selectedVerdicts' = toggleInArray(selectedVerdicts, v, checked)
  /\ UNCHANGED <<evaluations, selectedJudgeIds, selectedQuestionIds>>
  /\ UNCHANGED <<questionJudges, toggles, judges, activations, uiOps, queuePageVars>>
  /\ UNCHANGED <<storeVars, runVars>>

handleClearFilters ==
  /\ selectedJudgeIds' = <<>>
  /\ selectedQuestionIds' = <<>>
  /\ selectedVerdicts' = <<>>
  /\ UNCHANGED evaluations
  /\ UNCHANGED <<questionJudges, toggles, judges, activations, uiOps, queuePageVars>>
  /\ UNCHANGED <<storeVars, runVars>>

NextResultsPage ==
  \/ \E j \in DOMAIN dbJudges, checked \in BOOLEAN : ToggleJudge(j, checked)
  \/ \E i \in 1..Len(dbQuestions), checked \in BOOLEAN :
        ToggleQuestion(dbQuestions[i].id, checked)
  \/ \E v \in VerdictOptions, checked \in BOOLEAN : ToggleVerdict(v, checked)
  \/ handleClearFilters

SpecResultsPage == InitResultsPage /\ [][NextResultsPage]_vars

----------------------------------------------------------------------------

(* Runs requested from the QueuePage's Run button                          *)

InitQueuePage ==
  /\ dbSubmissions = SubmissionsTable(1)
  /\ dbQuestions \in QuestionsTables
  /\ dbAnswers = AnswersTable("all", 1)
  /\ dbJudges \in [JudgeIds -> [active : BOOLEAN]]
  /\ dbQuestionJudges \in
       { <<>>,
         <<AssignmentRow(1, "Q1", "A", "J1"), AssignmentRow(2, "Q2", "C", "J1"),
           AssignmentRow(3, "Q1", "B", "J2")>> }
  /\ dbEvaluations = <<>>
  /\ nextId = 4
  /\ InitRuns
  /\ clients = {}
  /\ InitPages

NextQueuePage ==
  \/ \E r \in Runs : HandleRunJudges(r)
  \/ \E r \in Runs : RunStepUi(r)
  \/ \E r \in Runs, how \in Settlements : HandleRunJudgesSettled(r, how)

SpecQueuePage == InitQueuePage /\ [][NextQueuePage]_vars

----------------------------------------------------------------------------

(* Properties of a run *)

\* run r has answered with the success summary
Summarised(r) == pc[r] = "done" /\ res[r].status = HTTP_OK

\* run r is between the plan-construction reads and its response
InLoops(r) == pc[r] \in {"loop", "generate", "insert"}

\* an Answer row for (s, q) is among the answers run r loaded
Answered(r, s, q) ==
  \E i \in 1..Len(answers[r]) :
     answers[r][i].submission_id = s /\ answers[r][i].question_id = q

\* the loaded assignment row k of run r has an existing, active judge
ActiveRow(r, k) == qj[r][k].judges.exists /\ qj[r][k].judges.active

\* the units of run r: a loaded submission, a loaded question that the
\* submission answered, and a loaded assignment row of that question with
\* an existing, active judge
Units(r) ==
  { u \in (1..Len(submissions[r])) \X (1..Len(questions[r])) \X (1..Len(qj[r])) :
      /\ qj[r][u[3]].question_id = questions[r][u[2]].id
      /\ Answered(r, submissions[r][u[1]].id, questions[r][u[2]].id)
      /\ ActiveRow(r, u[3]) }

\* C1: planned == completed + failed in every returned summary, and for
\* the running counters at every unit boundary inside the loops
C1_CountersBalance ==
  \A r \in Runs :
    /\ Summarised(r) => res[r].planned = res[r].completed + res[r].failed
    /\ pc[r] = "loop" => planned[r] = completed[r] + failed[r]

\* a summary of a run in which units completed and units failed in the
\* gateway call, on the response and in the insert
C1_Witness ==
  /\ Summarised("r1")
  /\ res["r1"].completed >= 1
  /\ tally["r1"]["error"] >= 1
  /\ tally["r1"]["unparseable"] >= 1
  /\ tally["r1"]["unsaved"] >= 1

\* C2: when the loaded submissions, questions or assignments are empty the
\* run answers planned = completed = failed = 0, no warnings and a note,
\* and it issues no gateway call and no evaluation insert
C2_NothingToEvaluate ==
  \A r \in Runs :
    (/\ InLoops(r) \/ Summarised(r)
     /\ \/ Len(submissions[r]) = 0
        \/ Len(questions[r]) = 0
        \/ Len(qj[r]) = 0)
    => /\ pc[r] = "done"
       /\ res[r] = [status |-> HTTP_OK, planned |-> 0, completed |-> 0,
                    failed |-> 0, note |-> NOTE_NOTHING, warnings |-> <<>>]
       /\ calls[r] = <<>>
       /\ inserts[r] = 0
       /\ pending[r] = NoRow
       /\ dbEvaluations = <<>>

\* a run that loaded submissions and questions but no assignment has answered
C2_Witness ==
  /\ Summarised("r1")
  /\ Len(submissions["r1"]) > 0
  /\ Len(questions["r1"]) > 0
  /\ Len(qj["r1"]) = 0

\* the scenario of C3: one submission, two answered questions, one judge
\* each, one of the two judges inactive
C3_Scenario(r) ==
  /\ Len(submissions[r]) = 1
  /\ Len(questions[r]) = 2
  /\ \A j \in 1..2 : Answered(r, submissions[r][1].id, questions[r][j].id)
  /\ Len(qj[r]) = 2
  /\ {qj[r][1].question_id, qj[r][2].question_id}
       = {questions[r][1].id, questions[r][2].id}
  /\ \A k \in 1..2 : qj[r][k].judges.exists
  /\ \E k \in 1..2 : qj[r][k].judges.active /\ ~qj[r][3 - k].judges.active

\* C3: an assignment whose joined judge is missing or inactive adds nothing
\* to planned and causes no gateway call and no insert; in the scenario
\* planned = 1
C3_InactiveJudgeUnplanned ==
  \A r \in Runs :
    /\ planned[r] = Len(calls[r])
    /\ \A c \in 1..Len(calls[r]) : \A k \in 1..Len(qj[r]) :
         qj[r][k].id = calls[r][c].assignment_id => ActiveRow(r, k)
    /\ pending[r] # NoRow =>
         \E k \in 1..Len(qj[r]) :
            /\ qj[r][k].judge_id = pending[r].judge_id
            /\ qj[r][k].question_id = pending[r].question_id
            /\ ActiveRow(r, k)
    /\ (Summarised(r) /\ C3_Scenario(r)) => res[r].planned = 1

\* the scenario has run to its summary
C3_Witness == Summarised("r1") /\ C3_Scenario("r1")

\* C4: a (submission, question) pair for which no Answer row was loaded
\* gets no unit and no gateway call, whatever its active assignments
C4_UnansweredPairUnplanned ==
  \A r \in Runs :
    /\ planned[r] = Len(calls[r])
    /\ \A c \in 1..Len(calls[r]) :
         Answered(r, calls[r][c].submission_id, calls[r][c].question_id)

\* a run has answered that loaded an unanswered pair whose question has an
\* active assignment, next to pairs that were planned
C4_Witness ==
  /\ Summarised("r1")
  /\ res["r1"].planned >= 1
  /\ \E i \in 1..Len(submissions["r1"]), j \in 1..Len(questions["r1"]),
        k \in 1..Len(qj["r1"]) :
       /\ ~Answered("r1", submissions["r1"][i].id, questions["r1"][j].id)
       /\ qj["r1"][k].question_id = questions["r1"][j].id
       /\ ActiveRow("r1", k)

\* the distinct (submission, question, judge) triples of run r
Triples(r) ==
  { <<submissions[r][u[1]].id, questions[r][u[2]].id, qj[r][u[3]].judge_id>> :
      u \in Units(r) }

\* C5: planned equals the number of distinct (submission, question, judge)
\* triples with an Answer and an existing, active, assigned judge, and no
\* triple is attempted twice within one run
C5_PlannedCountsTriples ==
  \A r \in Runs :
    /\ Summarised(r) => res[r].planned = Cardinality(Triples(r))
    /\ \A c, d \in 1..Len(calls[r]) :
         (/\ calls[r][c].submission_id = calls[r][d].submission_id
          /\ calls[r][c].question_id = calls[r][d].question_id
          /\ calls[r][c].judge_id = calls[r][d].judge_id) => c = d

\* a warning of the timeout category
TimeoutCategory(w) == w = HINT_TIMEOUT

\* C6: in a run whose units either timed out in the gateway or returned a
\* valid payload, completed is the number of valid units, failed the number
\* of timed-out units, warnings holds exactly one timeout-category message
\* and there is one evaluation row per valid unit
C6_TimeoutRun ==
  \A r \in Runs :
    (/\ Summarised(r)
     /\ tally[r]["timeout"] >= 1
     /\ tally[r]["timeout"] + tally[r]["saved"] = res[r].planned)
    => /\ res[r].completed = tally[r]["valid"]
       /\ res[r].failed = tally[r]["timeout"]
       /\ Cardinality({i \in 1..Len(res[r].warnings) :
                         TimeoutCategory(res[r].warnings[i])}) = 1
       /\ Len(dbEvaluations) = tally[r]["valid"]

\* the responses that parse as JSON and lack a truthy verdict or reasoning
InvalidPayloads ==
  { <<Obj("pass", undefined)>>, <<Obj("pass", "")>>, <<Obj(undefined, "ok")>>,
    <<Obj("", "ok")>>, <<Lit("array")>>, <<Lit("null")>> }

\* C7: a unit whose response parses as JSON but lacks a truthy verdict or
\* reasoning is counted as failed, no insert is attempted for it, and the
\* run goes on to the next unit
C7_InvalidPayloadFails ==
  [][ \A r \in Runs : \A outcome \in GatewayOutcomes :
        (/\ ~outcome.throws
         /\ outcome.response.hasText
         /\ outcome.response.text \in InvalidPayloads
         /\ pc[r] = "generate"
         /\ GenerateContent(r, outcome))
        => /\ failed'[r] = failed[r] + 1
           /\ completed'[r] = completed[r]
           /\ inserts'[r] = inserts[r]
           /\ pending'[r] = NoRow
           /\ dbEvaluations' = dbEvaluations
           /\ pc'[r] = "loop"
           /\ res'[r] = NoResponse ]_vars

\* after a unit with an invalid payload the gateway call of a later unit
\* is outstanding
C7_Witness ==
  /\ tally["r1"]["invalid"] >= 1
  /\ pc["r1"] = "generate"
  /\ planned["r1"] >= 2
  /\ failed["r1"] = planned["r1"] - 1

Verdicts == {"pass", "fail", "inconclusive"}

\* C8: every evaluation row has a verdict that is one of pass, fail or
\* inconclusive
C8_VerdictInEnum ==
  \A i \in 1..Len(dbEvaluations) : dbEvaluations[i].verdict \in Verdicts

\* the store now holds the submission, the question and an answer that an
\* evaluation row names, in the given queue
StoreHasAnswer(row, queue) ==
  /\ \E i \in 1..Len(dbSubmissions) :
       dbSubmissions[i].id = row.submission_id /\ dbSubmissions[i].queue_id = queue
  /\ \E i \in 1..Len(dbQuestions) :
       dbQuestions[i].id = row.question_id /\ dbQuestions[i].queue_id = queue
  /\ \E i \in 1..Len(dbAnswers) :
       /\ dbAnswers[i].submission_id = row.submission_id
       /\ dbAnswers[i].question_id = row.question_id

\* the store now holds the assignment that an evaluation row names, and
\* its judge is active
StoreHasActiveAssignment(row, queue) ==
  /\ \E i \in 1..Len(dbQuestionJudges) :
       /\ dbQuestionJudges[i].queue_id = queue
       /\ dbQuestionJudges[i].question_id = row.question_id
       /\ dbQuestionJudges[i].judge_id = row.judge_id
  /\ row.judge_id \in DOMAIN dbJudges
  /\ dbJudges[row.judge_id].active

\* C9: at the moment a run inserts an evaluation row, the store holds the
\* row's submission, question and answer in the run's queue, and the
\* row's judge is assigned to the question in that queue and active
C9_MatchAtInsert ==
  [][ \A r \in Runs :
        (pc[r] = "insert" /\ pc'[r] = "loop" /\ dbEvaluations' # dbEvaluations)
        => /\ StoreHasAnswer(pending[r], queueId[r])
           /\ StoreHasActiveAssignment(pending[r], queueId[r]) ]_vars

\* C9 as amended: every evaluation row names a submission, a question and
\* an answer that the store holds in the run's queue, and a judge that was
\* assigned to the question and active in the assignments the run loaded
C9_MatchAtLoad ==
  \A i \in 1..Len(dbEvaluations) : \E r \in Runs :
    /\ StoreHasAnswer(dbEvaluations[i], queueId[r])
    /\ \E s \in 1..Len(submissions[r]) :
         submissions[r][s].id = dbEvaluations[i].submission_id
    /\ \E q \in 1..Len(questions[r]) :
         questions[r][q].id = dbEvaluations[i].question_id
    /\ Answered(r, dbEvaluations[i].submission_id, dbEvaluations[i].question_id)
    /\ \E k \in 1..Len(qj[r]) :
         /\ qj[r][k].question_id = dbEvaluations[i].question_id
         /\ qj[r][k].judge_id = dbEvaluations[i].judge_id
         /\ ActiveRow(r, k)

\* a run has inserted a row for a judge that a settled handleToggleActive
\* has deactivated and for an assignment that a settled handleToggle has
\* removed
C9_Witness ==
  /\ activations = <<>>
  /\ toggles = <<>>
  /\ \E i \in 1..Len(dbEvaluations) :
       /\ ~dbJudges[dbEvaluations[i].judge_id].active
       /\ \E j \in 1..Len(dbEvaluations) :
            \A k \in 1..Len(dbQuestionJudges) :
               ~(/\ dbQuestionJudges[k].question_id = dbEvaluations[j].question_id
                 /\ dbQuestionJudges[k].judge_id = dbEvaluations[j].judge_id)

\* C10: once the plan-construction reads have succeeded no unit failure ends
\* the run early or yields a server error: the request ends with the
\* success summary, after every unit of the plan has been attempted
C10_RunsToSummary ==
  \A r \in Runs :
    /\ InLoops(r) => res[r] = NoResponse
    /\ (pc[r] = "done" /\ pos[r] # NoUnit)
       => /\ res[r].status = HTTP_OK
          /\ DOMAIN res[r] = {"status", "planned", "completed", "failed", "warnings"}
          /\ Len(calls[r]) = Cardinality(Units(r))
          /\ { <<calls[r][c].submission_id, calls[r][c].question_id,
                 calls[r][c].assignment_id>> : c \in 1..Len(calls[r]) }
             = { <<submissions[r][u[1]].id, questions[r][u[2]].id, qj[r][u[3]].id>> :
                   u \in Units(r) }

\* a run has answered after units failed in every way, the last unit of
\* its plan among the completed ones
C10_Witness ==
  /\ Summarised("r1")
  /\ tally["r1"]["timeout"] >= 1
  /\ tally["r1"]["invalid"] >= 1
  /\ tally["r1"]["unsaved"] >= 1
  /\ res["r1"].completed >= 1
  /\ dbEvaluations[Len(dbEvaluations)].submission_id = calls["r1"][Len(calls["r1"])].submission_id
  /\ dbEvaluations[Len(dbEvaluations)].question_id = calls["r1"][Len(calls["r1"])].question_id

\* run r is waiting for one of the four plan-construction reads
InReads(r) ==
  pc[r] \in {"readSubmissions", "readQuestions", "readAnswers", "readAssignments"}

\* the plan-construction read that run r is waiting for returns result
ReadReturns(r, result) ==
  \/ ReadSubmissions(r, result)
  \/ ReadQuestions(r, result)
  \/ ReadAnswers(r, result)
  \/ ReadAssignments(r, result)



\* C11: when a plan-construction read returns an error the request answers
\* with the server-error status, the fields error and hint and no counters,
\* and from then on the run issues no read, no gateway call and no insert
C11_ReadErrorAborts ==
  /\ [][ \A r \in Runs : \A result \in StoreResults :
           (InReads(r) /\ ~result.ok /\ ReadReturns(r, result))
           => /\ res'[r].status = HTTP_SERVER_ERROR
              /\ DOMAIN res'[r] = {"status", "error", "hint"}
              /\ pc'[r] = "done"
              /\ calls'[r] = <<>>
              /\ inserts'[r] = 0
              /\ pending'[r] = NoRow
              /\ dbEvaluations' = dbEvaluations ]_vars
  /\ [][ \A r \in Runs :
           res[r].status = HTTP_SERVER_ERROR
           => /\ pc'[r] = "done"
              /\ res'[r] = res[r]
              /\ calls'[r] = <<>>
              /\ inserts'[r] = 0
              /\ pending'[r] = NoRow
              /\ <<submissions'[r], questions'[r], answers'[r], qj'[r]>>
                 = <<submissions[r], questions[r], answers[r], qj[r]>> ]_vars

\* a run has answered with the server error after its reads of submissions,
\* questions and answers had returned rows
C11_Witness ==
  /\ pc["r1"] = "done"
  /\ res["r1"].status = HTTP_SERVER_ERROR
  /\ Len(submissions["r1"]) > 0
  /\ Len(questions["r1"]) > 0
  /\ Len(answers["r1"]) > 0
  /\ qj["r1"] = <<>>

\* C12: a request whose queueId is absent or empty is answered with the
\* client-error status and the field error alone, before any read, gateway
\* call or insert is issued, and it leaves the store as it was
C12_MissingQueueIdRejected ==
  /\ [](\A r \in Runs :
          (pc[r] # "idle" /\ queueId[r] = "")
          => /\ pc[r] = "done"
             /\ res[r].status = HTTP_BAD_REQUEST
             /\ DOMAIN res[r] = {"status", "error"}
             /\ <<submissions[r], questions[r], answers[r], qj[r]>>
                = <<(<<>>), <<>>, <<>>, <<>>>>
             /\ calls[r] = <<>>
             /\ inserts[r] = 0
             /\ pending[r] = NoRow)
  /\ [][ \A r \in Runs :
           (pc[r] = "idle" /\ pc'[r] # "idle" /\ queueId'[r] = "")
           => UNCHANGED storeVars ]_vars

\* a request without queueId has been rejected while the store holds a
\* queue with a plan of two units or more
C12_Witness ==
  /\ pc["r1"] = "done"
  /\ queueId["r1"] = ""
  /\ res["r1"].status = HTTP_BAD_REQUEST
  /\ Len(StorePlan("Q1")) >= 2

\* the gateway calls of run r that have settled
GatewaySettled(r) ==
  tally[r]["timeout"] + tally[r]["error"] + tally[r]["empty"]
    + tally[r]["unparseable"] + tally[r]["threw"] + tally[r]["invalid"]
    + tally[r]["valid"]

\* the gateway calls of run r that are outstanding
GatewayOutstanding(r) == Len(calls[r]) - GatewaySettled(r)

\* the evaluation inserts of run r that are outstanding
InsertsOutstanding(r) == tally[r]["valid"] - inserts[r]

\* C13: a run has at most one gateway call or evaluation insert outstanding
\* at any time, and while the gateway call of a unit is outstanding every
\* earlier unit has reached its final outcome, its insert included
C13_OneUnitAtATime ==
  \A r \in Runs :
    /\ GatewayOutstanding(r) \in {0, 1}
    /\ InsertsOutstanding(r) \in {0, 1}
    /\ GatewayOutstanding(r) + InsertsOutstanding(r) <= 1
    /\ GatewayOutstanding(r) = 1
       => /\ completed[r] + failed[r] = planned[r] - 1
          /\ completed[r] = tally[r]["saved"]
          /\ tally[r]["saved"] + tally[r]["unsaved"] = tally[r]["valid"]

\* the gateway call of a third unit is outstanding after a unit that was
\* saved and a unit whose insert failed
C13_Witness ==
  /\ GatewayOutstanding("r1") = 1
  /\ planned["r1"] = 3
  /\ tally["r1"]["saved"] = 1
  /\ tally["r1"]["unsaved"] = 1

\* the (submission, question, judge) triple of an evaluation row or a call
TripleOf(row) == <<row.submission_id, row.question_id, row.judge_id>>

\* C14: at every unit boundary of the run the evaluation rows number its
\* completed counter: one row per completed unit, carrying the unit's
\* submission, question and judge and a verdict and a reasoning, none for
\* a failed unit; and no row is ever changed or removed
C14_RowsMatchCompleted ==
  /\ [](\A r \in clients :
          (pc[r] \in {"loop", "generate", "insert"} \/ Summarised(r))
          => /\ Len(dbEvaluations) = completed[r]
             /\ completed[r] + failed[r]
                = IF pc[r] \in {"generate", "insert"} THEN planned[r] - 1 ELSE planned[r]
             /\ \A i \in 1..Len(dbEvaluations) :
                  /\ \E c \in 1..Len(calls[r]) :
                       TripleOf(calls[r][c]) = TripleOf(dbEvaluations[i])
                  /\ Truthy(dbEvaluations[i].verdict)
                  /\ Truthy(dbEvaluations[i].reasoning)
                  /\ \A k \in 1..Len(dbEvaluations) :
                       TripleOf(dbEvaluations[k]) = TripleOf(dbEvaluations[i]) => k = i)
  /\ [][ \A i \in 1..Len(dbEvaluations) :
           /\ i <= Len(dbEvaluations')
           /\ dbEvaluations'[i] = dbEvaluations[i] ]_vars

\* a run is at a unit boundary before the end of its plan, after two units
\* that completed and a unit that failed
C14_Witness ==
  /\ pc["r1"] = "loop"
  /\ completed["r1"] = 2
  /\ failed["r1"] = 1
  /\ Len(dbEvaluations) = 2
  /\ NextUnit(submissions["r1"], questions["r1"], answers["r1"], qj["r1"],
              pos["r1"].s, pos["r1"].q, pos["r1"].a) # NoUnit

\* the number of evaluation rows of a (submission, question, judge) triple
RowsOf(t, rows) == Cardinality({i \in 1..Len(rows) : TripleOf(rows[i]) = t})

\* C15: when a unit completes, in a first run or in a later run over the
\* same store data, every earlier evaluation row stays as it was and the
\* triple of the unit has one row more than before; two runs that have
\* both ended leave as many rows as they completed units together
C15_RerunAddsRows ==
  /\ [][ \A r \in Runs :
           (pc[r] = "insert" /\ completed'[r] = completed[r] + 1)
           => /\ SubSeq(dbEvaluations', 1, Len(dbEvaluations)) = dbEvaluations
              /\ RowsOf(TripleOf(pending[r]), dbEvaluations')
                 = RowsOf(TripleOf(pending[r]), dbEvaluations) + 1 ]_vars
  /\ []((\A r \in Runs : Summarised(r))
        => /\ Len(dbEvaluations) = completed["r1"] + completed["r2"]
           /\ \A c \in 1..Len(calls["r1"]) :
                (completed["r1"] = planned["r1"] /\ completed["r2"] = planned["r2"])
                => RowsOf(TripleOf(calls["r1"][c]), dbEvaluations) = 2)

\* both runs have ended with every unit completed, and the store holds two
\* rows for the triple (1, A, J1)
C15_Witness ==
  /\ \A r \in Runs : Summarised(r) /\ res[r].planned = 2 /\ res[r].completed = 2
  /\ RowsOf(<<1, "A", "J1">>, dbEvaluations) = 2

\* the category the priority list gives an error: quota before credentials
\* before timeout before generic
PriorityCategory(err) ==
  LET msg == LowerMessage(err) IN
  IF \/ Includes(msg, "quota")
     \/ Includes(msg, "rate limit")
     \/ Includes(msg, "resource_exhausted")
  THEN "quota"
  ELSE IF Includes(msg, "permission") \/ Includes(msg, "unauthorized") THEN "credentials"
  ELSE IF Includes(msg, "deadline") \/ Includes(msg, "timeout") THEN "timeout"
  ELSE "generic"

\* the category a warning or hint text speaks of
CategoryOfText(text) ==
  CASE text \in {WARN_QUOTA, HINT_QUOTA} -> "quota"
    [] text = HINT_CRED -> "credentials"
    [] text = HINT_TIMEOUT -> "timeout"
    [] text \in {WARN_LLM, HINT_GENERIC} -> "generic"
    [] OTHER -> "none"

\* C16: an error thrown by the gateway gets the category of the priority
\* list (quota, rate limit or resource_exhausted; then permission or
\* unauthorized; then deadline or timeout; else generic), in the per-unit
\* warning and in the outer hint alike, and the four hints are four texts
C16_SameClassification ==
  /\ [](Cardinality({HINT_QUOTA, HINT_CRED, HINT_TIMEOUT, HINT_GENERIC}) = 4)
  /\ [][ \A r \in Runs : \A outcome \in GatewayOutcomes :
           (/\ outcome.throws
            /\ outcome.error.status = 0
            /\ pc[r] = "generate"
            /\ GenerateContent(r, outcome))
           => /\ \E i \in 1..Len(runWarnings'[r]) :
                   CategoryOfText(runWarnings'[r][i]) = PriorityCategory(outcome.error)
              /\ CategoryOfText(ServerError(outcome.error).hint)
                 = PriorityCategory(outcome.error) ]_vars

\* the response texts that are no JSON text once the fences are removed
UnparseableTexts ==
  { <<Word("Sure"), Ws, Obj("pass", "ok")>>,
    <<Tick, Word("js"), Ws, Obj("pass", "ok"), Ws, Tick>>,
    <<Tick, Word("json"), Ws, Tick>> }

\* the warning of the failure mode a response falls in, "" for a response
\* that is a complete payload
ModeWarning(response) ==
  IF ~response.hasText \/ response.text \in {<<>>, <<Ws>>} THEN WARN_EMPTY
  ELSE IF response.text \in UnparseableTexts THEN WARN_PARSE
  ELSE IF response.text \in InvalidPayloads THEN WARN_INVALID
  ELSE ""

\* C17: a unit with an empty or absent text adds the empty-response
\* warning, one with a text that cannot be parsed the not-parseable warning,
\* one whose text is a JSON value without a truthy verdict or reasoning the
\* invalid-payload warning, one whose insert fails the could-not-be-saved
\* warning; each time failed grows by one and completed stays
C17_WarningPerFailureMode ==
  [][ \A r \in Runs :
        /\ \A outcome \in GatewayOutcomes :
             (/\ ~outcome.throws
              /\ ModeWarning(outcome.response) # ""
              /\ pc[r] = "generate"
              /\ GenerateContent(r, outcome))
             => /\ Range(runWarnings'[r])
                   = Range(runWarnings[r]) \cup {ModeWarning(outcome.response)}
                /\ failed'[r] = failed[r] + 1
                /\ completed'[r] = completed[r]
        /\ \A result \in StoreResults :
             (~result.ok /\ pc[r] = "insert" /\ InsertEvaluation(r, result))
             => /\ Range(runWarnings'[r]) = Range(runWarnings[r]) \cup {WARN_SAVE}
                /\ failed'[r] = failed[r] + 1
                /\ completed'[r] = completed[r] ]_vars

\* the warning texts a unit can add
WarningTexts ==
  {WARN_EMPTY, WARN_PARSE, WARN_INVALID, WARN_SAVE, WARN_QUOTA, WARN_LLM}

\* no element of the sequence occurs twice
NoDuplicates(seq) ==
  \A i, k \in 1..Len(seq) : seq[i] = seq[k] => i = k

\* C18: the warnings of a run, while it runs and in its summary, hold no
\* text twice and never more entries than there are warning texts, however
\* many units failed in the same way
C18_WarningsDistinct ==
  \A r \in Runs :
    /\ NoDuplicates(runWarnings[r])
    /\ Len(runWarnings[r]) <= Cardinality(WarningTexts)
    /\ Len(runWarnings[r]) <= failed[r]
    /\ Summarised(r)
       => /\ NoDuplicates(res[r].warnings)
          /\ Range(res[r].warnings) \subseteq WarningTexts
          /\ Len(res[r].warnings) <= Cardinality(WarningTexts)

\* a summary with two warnings after four failed units, two or more of them
\* with an empty response
C18_Witness ==
  /\ Summarised("r1")
  /\ res["r1"].failed = 4
  /\ tally["r1"]["empty"] >= 2
  /\ Len(res["r1"].warnings) = 2

\* C19: no step of a run changes the submissions, questions, answers,
\* judges or assignments of the store, whatever the outcome of the unit;
\* the one change a run makes to the store is to append the evaluation row
\* whose insert it awaits
C19_RunOnlyInsertsEvaluations ==
  [][ /\ UNCHANGED <<dbSubmissions, dbQuestions, dbAnswers, dbJudges,
                     dbQuestionJudges, nextId>>
      /\ \/ dbEvaluations' = dbEvaluations
         \/ \E r \in Runs :
              /\ pc[r] = "insert"
              /\ dbEvaluations' = Append(dbEvaluations, pending[r]) ]_vars

\* a run has ended, over a store with three assignments, after two units
\* completed, a unit had an invalid payload and the insert of a unit failed
C19_Witness ==
  /\ Summarised("r1")
  /\ res["r1"].completed = 2
  /\ tally["r1"]["invalid"] >= 1
  /\ tally["r1"]["unsaved"] >= 1
  /\ Len(dbQuestionJudges) = 3
  /\ Len(dbEvaluations) = 2

\* the response texts that are a complete payload between ```json fences,
\* two of them with backticks inside the reasoning
FencedPayloads ==
  { <<Tick, Word("json"), Ws, Obj("pass", "ok"), Ws, Tick>>,
    <<Ws, Tick, Word("JSON"), Ws, Obj("inconclusive", "ok"), Ws, Tick, Ws>>,
    <<Tick, Word("json"), Ws, Obj("fail", "see #fence#x#fence#"), Ws, Tick>>,
    <<Tick, Word("json"), Ws, Obj("pass", "#fence#"), Ws, Tick>> }

\* the JSON object inside a fenced text
Fenced(text) == CHOOSE tok \in Range(text) : tok.k = "json"

\* C20: a response text that is a complete {verdict, reasoning} object
\* between ```json fences is parsed without the fences: the unit adds no
\* warning and does not fail, its insert is issued with that verdict and
\* reasoning, and when the insert succeeds the row is in the store and
\* completed has grown by one
C20_FencedPayloadCompletes ==
  [][ \A r \in Runs :
        /\ \A outcome \in GatewayOutcomes :
             (/\ ~outcome.throws
              /\ outcome.response.hasText
              /\ outcome.response.text \in FencedPayloads
              /\ pc[r] = "generate"
              /\ GenerateContent(r, outcome))
             => /\ pc'[r] = "insert"
                /\ pending'[r] =
                     [submission_id |-> calls[r][Len(calls[r])].submission_id,
                      question_id |-> calls[r][Len(calls[r])].question_id,
                      judge_id |-> calls[r][Len(calls[r])].judge_id,
                      verdict |-> Fenced(outcome.response.text).verdict,
                      reasoning |-> Fenced(outcome.response.text).reasoning]
                /\ runWarnings'[r] = runWarnings[r]
                /\ failed'[r] = failed[r]
        /\ \A result \in StoreResults :
             (result.ok /\ pc[r] = "insert" /\ InsertEvaluation(r, result))
             => /\ dbEvaluations' = Append(dbEvaluations, pending[r])
                /\ completed'[r] = completed[r] + 1
                /\ runWarnings'[r] = runWarnings[r]
                /\ failed'[r] = failed[r] ]_vars

\* the three lists the QueuePage holds are all non-empty
ListsFilled ==
  /\ Len(listedQuestions) > 0
  /\ listedJudges # {}
  /\ Len(questionJudges) > 0

\* C21: a click on Run sends a request to the run endpoint when the page's
\* questions, active judges and assignments are all non-empty, and
\* otherwise sends none and shows an error status; no request is ever
\* sent while one of the three lists is empty
C21_RunNeedsFilledLists ==
  /\ [][ \A r \in Runs :
           HandleRunJudges(r)
           => IF ListsFilled
              THEN /\ r \in fetches'
                   /\ r \in clients'
                   /\ runStatus'.kind = "info"
              ELSE /\ fetches' = fetches
                   /\ clients' = clients
                   /\ runStatus'.kind = "error" ]_vars
  /\ [][ (clients' # clients \/ ~(fetches' \subseteq fetches)) => ListsFilled ]_vars

\* the page shows the error about the missing assignments although the
\* queue has questions and active judges, and no run was requested
C21_Witness ==
  /\ runStatus.kind = "error"
  /\ runStatus.message = <<MSG_NO_ASSIGNMENTS>>
  /\ Len(listedQuestions) > 0
  /\ listedJudges # {}
  /\ clients = {}

\* C22: the gateway is called once for every planned unit and never again
\* for it, whatever became of the call: the calls a run has issued number
\* its planned counter, no unit is called twice, and the calls that have
\* settled never outnumber the planned units
C22_OneCallPerUnit ==
  \A r \in Runs :
    /\ Len(calls[r]) = planned[r]
    /\ GatewaySettled(r) = IF pc[r] = "generate" THEN planned[r] - 1 ELSE planned[r]
    /\ failed[r] = GatewaySettled(r) - tally[r]["valid"] + tally[r]["unsaved"]
    /\ \A c, d \in 1..Len(calls[r]) :
         (/\ calls[r][c].submission_id = calls[r][d].submission_id
          /\ calls[r][c].question_id = calls[r][d].question_id
          /\ calls[r][c].assignment_id = calls[r][d].assignment_id) => c = d
    /\ Summarised(r) /\ "note" \notin DOMAIN res[r]
       => res[r].planned = GatewaySettled(r)

\* a run of four units has ended after a gateway error, an empty response,
\* a response that could not be parsed and an invalid payload
C22_Witness ==
  /\ Summarised("r1")
  /\ res["r1"].planned = 4
  /\ tally["r1"]["error"] = 1
  /\ tally["r1"]["empty"] = 1
  /\ tally["r1"]["unparseable"] = 1
  /\ tally["r1"]["invalid"] = 1

\* C23: when every store call and every gateway call returns, a requested
\* run ends with a response, one response only, after a gateway call for
\* every unit of its plan; and while a gateway call has not returned the
\* run has sent no response and goes on to no later unit
C23_RunEndsWithOneResponse ==
  /\ \A r \in Runs : (pc[r] # "idle") ~> (pc[r] = "done")
  /\ [](\A r \in Runs :
          /\ pc[r] = "done" <=> res[r] # NoResponse
          /\ (Summarised(r) /\ "note" \notin DOMAIN res[r])
             => /\ Len(calls[r]) = Cardinality(Units(r))
                /\ GatewaySettled(r) = Len(calls[r]))
  /\ [][ \A r \in Runs :
           /\ res[r] # NoResponse => res'[r] = res[r] /\ pc'[r] = "done"
           /\ (pc[r] = "generate" /\ GatewaySettled(r)' = GatewaySettled(r))
              => /\ pc'[r] = "generate"
                 /\ res'[r] = NoResponse
                 /\ planned'[r] = planned[r]
                 /\ calls'[r] = calls[r]
                 /\ pos'[r] = pos[r] ]_vars

\* a run with a plan of two units has ended with its summary, after two
\* gateway calls that returned
C23_Witness ==
  /\ Summarised("r1")
  /\ "note" \notin DOMAIN res["r1"]
  /\ Cardinality(Units("r1")) = 2
  /\ GatewaySettled("r1") = 2
  /\ res["r1"].completed + res["r1"].failed = 2
\* everything the handler holds for run r
RunState(r) ==
  <<pc[r], queueId[r], submissions[r], questions[r], answers[r], qj[r], pos[r],
    planned[r], completed[r], failed[r], runWarnings[r], pending[r], res[r]>>

\* the warnings of a run whose units went the ways its tally counts
WarningsAlone(r) ==
  {w \in {WARN_EMPTY, WARN_PARSE, WARN_INVALID, WARN_SAVE, WARN_LLM} :
     \/ w = WARN_EMPTY /\ tally[r]["empty"] > 0
     \/ w = WARN_PARSE /\ tally[r]["unparseable"] > 0
     \/ w = WARN_INVALID /\ tally[r]["invalid"] > 0
     \/ w = WARN_SAVE /\ tally[r]["unsaved"] > 0
     \/ w = WARN_LLM /\ tally[r]["timeout"] + tally[r]["threw"] > 0}

\* C24: of two runs handled at once, for the same queue or for two queues,
\* a step of one changes nothing the handler holds for the other; each
\* summary is the one the run's own plan and own unit outcomes give, with
\* planned = completed + failed; and the evaluation rows are those the two
\* runs inserted, each appended by the run that completed the unit
C24_RunsDoNotInterfere ==
  /\ [][ \A r \in Runs : \A o \in Runs \ {r} :
           RunState(r)' # RunState(r) => RunState(o)' = RunState(o) ]_vars
  /\ [][ \A r \in Runs :
           IF pc[r] = "insert" /\ completed'[r] = completed[r] + 1
           THEN dbEvaluations' = Append(dbEvaluations, pending[r])
           ELSE (\A o \in Runs \ {r} : RunState(o)' = RunState(o))
                => dbEvaluations' = dbEvaluations ]_vars
  /\ [](Len(dbEvaluations) = completed["r1"] + completed["r2"])
  /\ [](\A r \in Runs :
          Summarised(r)
          => /\ res[r].planned = Len(StorePlan(queueId[r]))
             /\ \A c \in 1..Len(calls[r]) :
                  calls[r][c] = UnitAt(r, StorePlan(queueId[r])[c])
             /\ res[r].planned = res[r].completed + res[r].failed
             /\ res[r].completed = tally[r]["saved"]
             /\ res[r].failed = tally[r]["timeout"] + tally[r]["invalid"]
                                + tally[r]["unsaved"]
             /\ Range(res[r].warnings) = WarningsAlone(r)
             /\ NoDuplicates(res[r].warnings))

\* two runs for two queues have ended, one with a failed unit and its
\* warning and one without, and the other run's row was inserted first
C24_Witness ==
  /\ Summarised("r1") /\ Summarised("r2")
  /\ queueId["r1"] = "Q1" /\ queueId["r2"] = "Q2"
  /\ res["r1"].completed = 1 /\ res["r1"].failed = 1
  /\ res["r1"].warnings # <<>>
  /\ res["r2"].completed = 1 /\ res["r2"].warnings = <<>>
  /\ Len(dbEvaluations) = 2
  /\ dbEvaluations[1].question_id = "C"

\* row i of the answers run r loaded is of submission s and question q
MatchesPair(r, i, s, q) ==
  answers[r][i].submission_id = s /\ answers[r][i].question_id = q

\* the calls run r made for submission s and question q
CallsOfPair(r, s, q) ==
  {c \in 1..Len(calls[r]) :
     calls[r][c].submission_id = s /\ calls[r][c].question_id = q}

\* the loaded assignment rows of question q with an existing, active judge
ActiveRowsOf(r, q) ==
  {k \in 1..Len(qj[r]) : qj[r][k].question_id = q /\ ActiveRow(r, k)}

\* the loaded answers without any row that repeats the pair of an earlier row
FirstAnswers(r) ==
  SeqFilter(answers[r],
            {a \in Range(answers[r]) :
               \E i \in 1..Len(answers[r]) :
                  /\ answers[r][i] = a
                  /\ \A k \in 1..(i - 1) :
                       ~MatchesPair(r, k, a.submission_id, a.question_id)})

\* C25: every call of a run carries the choice of the first loaded Answer
\* row of its submission and question, and a summarised run has planned,
\* for every loaded submission and question with one Answer row or with
\* several, one unit per loaded assignment row of the question with an
\* active judge: as many units as it would plan without the repeated rows
C25_OneUnitPerAssignment ==
  \A r \in clients :
    /\ \A c \in 1..Len(calls[r]) :
         \E i \in 1..Len(answers[r]) :
            /\ MatchesPair(r, i, calls[r][c].submission_id, calls[r][c].question_id)
            /\ \A k \in 1..(i - 1) :
                 ~MatchesPair(r, k, calls[r][c].submission_id, calls[r][c].question_id)
            /\ calls[r][c].choice = answers[r][i].choice
    /\ Summarised(r)
       => /\ \A s \in 1..Len(submissions[r]) : \A q \in 1..Len(questions[r]) :
               Cardinality(CallsOfPair(r, submissions[r][s].id, questions[r][q].id))
               = IF Answered(r, submissions[r][s].id, questions[r][q].id)
                 THEN Cardinality(ActiveRowsOf(r, questions[r][q].id))
                 ELSE 0
          /\ res[r].planned
             = Len(PlanFrom(submissions[r], questions[r], FirstAnswers(r), qj[r],
                            1, 1, 0))

\* a run has ended over answers that hold two rows of submission 1 and
\* question A with different choices; it called the gateway once for each
\* of the two judges of A, with the choice of the first row
C25_Witness ==
  /\ Summarised("r1")
  /\ Cardinality({i \in 1..Len(answers["r1"]) : MatchesPair("r1", i, 1, "A")}) = 2
  /\ \E i, k \in 1..Len(answers["r1"]) :
       /\ MatchesPair("r1", i, 1, "A") /\ MatchesPair("r1", k, 1, "A")
       /\ answers["r1"][i].choice # answers["r1"][k].choice
  /\ Cardinality(CallsOfPair("r1", 1, "A")) = 2
  /\ \A c \in CallsOfPair("r1", 1, "A") : calls["r1"][c].choice = "x"

\* the evaluations of the page for which each of the three selections is
\* empty or holds the evaluation's value
Wanted ==
  {e \in Range(evaluations) :
     /\ selectedJudgeIds = <<>> \/ \E i \in 1..Len(selectedJudgeIds) :
                                      selectedJudgeIds[i] = e.judgeId
     /\ selectedQuestionIds = <<>> \/ \E i \in 1..Len(selectedQuestionIds) :
                                         selectedQuestionIds[i] = e.questionId
     /\ selectedVerdicts = <<>> \/ \E i \in 1..Len(selectedVerdicts) :
                                      selectedVerdicts[i] = e.verdict}

\* C26: after any toggles and clears of the Results page's filters the
\* listed evaluations are those for which every filter is empty or holds
\* the evaluation's value, each listed once; no selection holds a value
\* twice; total is the number listed and passCount the number listed with
\* verdict pass
C26_FiltersSelectListed ==
  /\ Range(filteredEvaluations) = Wanted
  /\ NoDuplicates(filteredEvaluations)
  /\ NoDuplicates(selectedJudgeIds)
  /\ NoDuplicates(selectedQuestionIds)
  /\ NoDuplicates(selectedVerdicts)
  /\ total = Cardinality(Wanted)
  /\ passCount = Cardinality({e \in Wanted : e.verdict = "pass"})

\* with two judges, some question and two verdicts selected, some
\* evaluations of the page are listed and some are not, and one of the
\* listed is a pass
C26_Witness ==
  /\ Len(selectedJudgeIds) = 2
  /\ selectedQuestionIds # <<>>
  /\ Len(selectedVerdicts) = 2
  /\ total >= 2
  /\ total < Len(evaluations)
  /\ passCount = 1

\* C27: a step that counts a failed unit leaves a warning in the run's
\* warnings and a step that counts a completed unit leaves the warnings as
\* they were; so the warnings never number more than failed, and in every
\* summary they are empty exactly when failed is 0
C27_WarningsIffFailed ==
  /\ [][ \A r \in Runs :
           /\ failed'[r] # failed[r]
              => /\ failed'[r] = failed[r] + 1
                 /\ completed'[r] = completed[r]
                 /\ runWarnings'[r] # <<>>
                 /\ \/ runWarnings'[r] = runWarnings[r]
                    \/ \E w \in WarningTexts : runWarnings'[r] = Append(runWarnings[r], w)
           /\ failed'[r] = failed[r] => runWarnings'[r] = runWarnings[r] ]_vars
  /\ [](\A r \in Runs :
          /\ Len(runWarnings[r]) <= failed[r]
          /\ Summarised(r)
             => /\ res[r].failed = failed[r]
                /\ res[r].warnings = runWarnings[r]
                /\ Len(res[r].warnings) <= res[r].failed
                /\ (res[r].warnings = <<>>) <=> (res[r].failed = 0))

\* a summary with three failed units and one warning, and in it a
\* completed unit
C27_Witness ==
  /\ Summarised("r1")
  /\ res["r1"].failed = 3
  /\ Len(res["r1"].warnings) = 1
  /\ res["r1"].completed = 1

\* C28: the quota warning or the LLM-calls-failed warning is among a run's
\* warnings only if a gateway call of the run threw; a unit whose gateway
\* call returned a response adds neither of the two
C28_GatewayWarningNeedsGatewayFailure ==
  /\ [](\A r \in Runs :
          (Range(runWarnings[r]) \cap {WARN_QUOTA, WARN_LLM} # {})
          => tally[r]["timeout"] + tally[r]["error"] > 0)
  /\ [][ \A r \in Runs :
           (tally'[r]["timeout"] = tally[r]["timeout"]
            /\ tally'[r]["error"] = tally[r]["error"])
           => Range(runWarnings'[r]) \cap {WARN_QUOTA, WARN_LLM}
              = Range(runWarnings[r]) \cap {WARN_QUOTA, WARN_LLM} ]_vars

\* C29: when no handleToggleActive request of a judge is pending, the
\* Judges page shows for the judge the active flag the store holds
C29_PageShowsStoredActive ==
  \A j \in DOMAIN judges :
    (\A i \in 1..Len(activations) : activations[i].judge_id # j)
    => judges[j] = dbJudges[j].active

====
